---- MODULE Spec2Model ----
(***************************************************************************)
(* A model of lockcheck's analysis pass (lockcheck/src/analysis/pass.rs):  *)
(* the invocation collector, the guard-flow collector, the dependency map, *)
(* the cycle detector and the diagnostics, run over small MIR programs.    *)
(***************************************************************************)
EXTENDS Integers, Sequences, FiniteSets, TLC

VARIABLES
    prog,               \* the analysed crate: MIR bodies, HIR items, pass targets
    phase,              \* position in run_passes / run_pass
    passIdx,            \* index of the current pass in prog.targets
    status,             \* run_passes: the accumulated ErrorStatus
    passResult,         \* the ErrorStatus the current pass returned
    exitCode,           \* process exit code, -1 while running
    NEXT_LOCK_CLASS,    \* the process-wide lock class counter
    class_to_ty,        \* LockClassTyMap.class_to_ty
    ty_to_class,        \* LockClassTyMap.ty_to_class
    invocations,        \* AnalysisPass.invocations: Bbid -> LockInvocation
    return_map,         \* AnalysisPass.return_map: DefId -> set of ReturnLocation
    scanIdx,            \* collect_invocations: next HIR item
    pendingInv,         \* invocations a loop over self.invocations has still to visit
    curInv,             \* the invocation the current loop iteration is at
    pendChildren,       \* run_pass: children of curInv still to examine
    stack,              \* collect_inner: the call stack of its recursion
    ret,                \* collect_inner: the GuardState just returned, or "none"
    dependant_classes,  \* DependantClassCollector.dependant_classes
    visited_blocks,     \* DependantClassCollector.visited_blocks
    visited_functions,  \* DependantClassCollector.visited_functions
    dependant_map,      \* run_pass: the map get_dependant_map returned
    errors,             \* AnalysisPass.errors (BTreeSet keyed by child_span)
    reported,           \* log of emit_deadlock_error calls: <<parent bbid, child bbid>>
    emitted,            \* the diagnostic stream, in emission order
    inputs,             \* a function applied on its own: the arguments drawn for it
    outputs             \* a function applied on its own: the values it returned

vars == <<prog, phase, passIdx, status, passResult, exitCode, NEXT_LOCK_CLASS,
          class_to_ty, ty_to_class, invocations, return_map, scanIdx, pendingInv,
          curInv, pendChildren, stack, ret, dependant_classes, visited_blocks,
          visited_functions, dependant_map, errors, reported, emitted, inputs,
          outputs>>

(***************************************************************************)
(* MIR.  A body is a sequence of basic blocks, block b being blocks[b+1].  *)
(* Every terminator and statement is a record with the same fields, the    *)
(* fields a kind does not use holding the defaults below.                  *)
(***************************************************************************)
START_BLOCK == 0
RETURN_PLACE == 0
NoBlock == -1
NoLocal == -1
NoFn == "none"
LOCK_FILLER_FN_NAME == "__lock_check_resolve"

NoTy == [refs |-> 0, adt |-> "none", generics |-> <<>>]
RefTo(adt, generics) == [refs |-> 1, adt |-> adt, generics |-> generics]

Move(l) == [op |-> "Move", local |-> l, ty |-> NoTy]
Copy(l) == [op |-> "Copy", local |-> l, ty |-> NoTy]
MoveRef(l, adt, T) == [op |-> "Move", local |-> l, ty |-> RefTo(adt, <<T>>)]
CopyRef(l, adt, T) == [op |-> "Copy", local |-> l, ty |-> RefTo(adt, <<T>>)]
Const == [op |-> "Constant", local |-> NoLocal, ty |-> NoTy]

Stmt(kind, l, rv, ops) == [kind |-> kind, local |-> l, rvalue |-> rv, operands |-> ops]
AssignUse(l, operand) == Stmt("Assign", l, "Use", <<operand>>)
AssignAggregate(l, ops) == Stmt("Assign", l, "Aggregate", ops)
AssignRef(l, src) == Stmt("Assign", l, "Ref", <<Copy(src)>>)
AssignOther(l) == Stmt("Assign", l, "BinaryOp", <<>>)
Deinit(l) == Stmt("Deinit", l, "none", <<>>)
StorageLive(l) == Stmt("StorageLive", l, "none", <<>>)
StorageDead(l) == Stmt("StorageDead", l, "none", <<>>)

Term(kind, target, targets, l, func, args, span, unwind) ==
    [kind |-> kind, target |-> target, targets |-> targets, local |-> l,
     func |-> func, args |-> args, span |-> span, unwind |-> unwind]
Goto(t) == Term("Goto", t, <<>>, NoLocal, NoFn, <<>>, 0, NoBlock)
SwitchInt(targets, otherwise) ==
    Term("SwitchInt", otherwise, targets, NoLocal, NoFn, <<>>, 0, NoBlock)
Return == Term("Return", NoBlock, <<>>, NoLocal, NoFn, <<>>, 0, NoBlock)
Unreachable == Term("Unreachable", NoBlock, <<>>, NoLocal, NoFn, <<>>, 0, NoBlock)
UnwindResume == Term("UnwindResume", NoBlock, <<>>, NoLocal, NoFn, <<>>, 0, NoBlock)
Drop(l, t) == Term("Drop", t, <<>>, l, NoFn, <<>>, 0, NoBlock)
DropUnwind(l, t, u) == Term("Drop", t, <<>>, l, NoFn, <<>>, 0, u)
Call(func, args, dest, t, span) == Term("Call", t, <<>>, dest, func, args, span, NoBlock)
CallUnwind(func, args, dest, t, span, u) == Term("Call", t, <<>>, dest, func, args, span, u)
AssertTerm(t) == Term("Assert", t, <<>>, NoLocal, NoFn, <<>>, 0, NoBlock)
Yield(t) == Term("Yield", t, <<>>, NoLocal, NoFn, <<>>, 0, NoBlock)

BB(stmts, term) == [statements |-> stmts, terminator |-> term]
Body(blocks) == [blocks |-> blocks]
BlockData(body, b) == body.blocks[b + 1]

Bbid(def_id, basic_block) == [def_id |-> def_id, basic_block |-> basic_block]
NoBbid == Bbid(NoFn, NoBlock)
fn_start(def_id) == Bbid(def_id, START_BLOCK)
with_basic_block(bbid, basic_block) == Bbid(bbid.def_id, basic_block)

FnItem(def_id) == [def_id |-> def_id, kind |-> "Fn"]
StructItem(def_id) == [def_id |-> def_id, kind |-> "Struct"]
Target(lock, lock_method) == [lock |-> lock, lock_method |-> lock_method]
StdMutex == Target("Mutex", "Mutex::lock")

(***************************************************************************)
(* The analysed programs.  Each is a crate: its HIR items in definition    *)
(* order, the MIR bodies the compiler can hand out (a function without an  *)
(* entry has no MIR: extern, intrinsic, trait method), and the configured  *)
(* lock targets.  The resolution shim is appended to every crate.          *)
(***************************************************************************)
OtherMutex == Target("OtherMutex", "OtherMutex::lock")

\* _dest = Mutex::lock(move _tmp) -> target, _tmp: &Mutex<T>
Lock(tmp, T, dest, t, span) == Call("Mutex::lock", <<MoveRef(tmp, "Mutex", T)>>, dest, t, span)
OtherLock(tmp, T, dest, t, span) ==
    Call("OtherMutex::lock", <<MoveRef(tmp, "OtherMutex", T)>>, dest, t, span)
New(dest, t) == Call("Mutex::new", <<Const>>, dest, t, 0)

RECURSIVE FillerLockBlocks(_, _)
FillerLockBlocks(targets, i) ==
    IF i >= Len(targets) THEN <<>>
    ELSE <<BB(<<>>, Call("new", <<Const>>, 3 * i + 1, 3 * i + 1, 0)),
           BB(<<>>, Call(targets[i + 1].lock_method,
                         <<MoveRef(3 * i + 1, targets[i + 1].lock, "u8")>>,
                         3 * i + 2, 3 * i + 2, 0)),
           BB(<<>>, Call("Result::unwrap", <<Move(3 * i + 2)>>, 3 * i + 3, 3 * i + 3, 0))>>
         \o FillerLockBlocks(targets, i + 1)

RECURSIVE FillerDropBlocks(_, _)
FillerDropBlocks(n, j) ==
    IF j >= n THEN <<BB(<<>>, Return)>>
    ELSE <<BB(<<>>, Drop(3 * (n - 1 - j) + 3, 3 * n + j + 1))>> \o FillerDropBlocks(n, j + 1)

\* generate_lock_filler: three statements per lock target
FillerBody(targets) ==
    Body(FillerLockBlocks(targets, 0) \o FillerDropBlocks(Len(targets), 0))

Crate(name, items, bodies, targets) ==
    [name |-> name,
     items |-> items \o <<FnItem(LOCK_FILLER_FN_NAME)>>,
     bodies |-> bodies @@ (LOCK_FILLER_FN_NAME :> FillerBody(targets)),
     targets |-> targets,
     config |-> "Ok"]

\* core::mem::drop<T>(_1: T)
MemDropBody == Body(<<BB(<<>>, Drop(1, 1)), BB(<<>>, Return)>>)

\* Result::unwrap(self)
UnwrapBody ==
    Body(<<BB(<<AssignOther(2)>>, SwitchInt(<<1, 2>>, 3)),
           BB(<<AssignUse(0, Move(1))>>, Return),
           BB(<<AssignUse(3, Move(1)), AssignRef(5, 3)>>,
              Call("unwrap_failed", <<Const, Move(5)>>, 4, NoBlock, 0)),
           BB(<<>>, Unreachable)>>)

\* test_crate/src/tester.rs
ReturnGuardBody ==
    Body(<<BB(<<AssignRef(3, 1)>>, Call("DerefMut::deref_mut", <<Move(3)>>, 2, 1, 0)),
           BB(<<AssignOther(4), AssignUse(0, Move(1))>>, Return)>>)

DropGuardBody ==
    Body(<<BB(<<AssignRef(3, 1)>>, Call("DerefMut::deref_mut", <<Move(3)>>, 2, 1, 0)),
           BB(<<AssignOther(4)>>, Drop(1, 2)),
           BB(<<>>, Return)>>)

LockMutexBody ==
    Body(<<BB(<<AssignRef(4, 1)>>, Lock(4, "usize", 3, 1, 15)),
           BB(<<>>, Call("Result::unwrap", <<Move(3)>>, 2, 2, 0)),
           BB(<<AssignRef(6, 2)>>, Call("DerefMut::deref_mut", <<Move(6)>>, 5, 3, 0)),
           BB(<<AssignOther(7)>>, Drop(2, 4)),
           BB(<<>>, Return)>>)

TesterCrate ==
    Crate("tester",
          <<FnItem("return_guard"), FnItem("drop_guard"), FnItem("lock_mutex"), FnItem("test")>>,
          ("return_guard" :> ReturnGuardBody) @@ ("drop_guard" :> DropGuardBody)
          @@ ("lock_mutex" :> LockMutexBody) @@ ("Result::unwrap" :> UnwrapBody)
          @@ ("test" :> Body(<<
              BB(<<>>, New(1, 1)),
              BB(<<StorageLive(2), AssignRef(10, 1)>>, Lock(10, "usize", 3, 2, 22)),
              BB(<<>>, Call("Result::unwrap", <<Move(3)>>, 2, 3, 0)),
              BB(<<AssignUse(5, Move(2))>>, Call("return_guard", <<Move(5)>>, 4, 4, 0)),
              BB(<<AssignRef(7, 1)>>, Call("lock_mutex", <<Move(7)>>, 6, 5, 0)),
              BB(<<AssignUse(9, Move(4))>>, Call("drop_guard", <<Move(9)>>, 8, 6, 0)),
              BB(<<>>, Return)>>)),
          <<StdMutex>>)

\* test_crate/src/main.rs
Okay1 ==
    Crate("okay1", <<StructItem("Okay1"), FnItem("okay1")>>,
          "okay1" :> Body(<<
              BB(<<>>, New(1, 1)),
              BB(<<StorageLive(2), AssignRef(3, 1)>>, Lock(3, "Okay1", 2, 2, 10)),
              BB(<<StorageDead(3)>>, Drop(2, 3)),
              BB(<<StorageDead(2)>>, Return)>>),
          <<StdMutex>>)

Deadlock1 ==
    Crate("deadlock1", <<StructItem("Deadlock1"), FnItem("deadlock1")>>,
          "deadlock1" :> Body(<<
              BB(<<>>, New(1, 1)),
              BB(<<StorageLive(2), AssignRef(3, 1)>>, Lock(3, "Deadlock1", 2, 2, 16)),
              BB(<<StorageDead(3), StorageLive(4), AssignRef(5, 1)>>, Lock(5, "Deadlock1", 4, 3, 17)),
              BB(<<StorageDead(5)>>, Drop(4, 4)),
              BB(<<StorageDead(4)>>, Drop(2, 5)),
              BB(<<StorageDead(2)>>, Return)>>),
          <<StdMutex>>)

Okay2 ==
    Crate("okay2", <<StructItem("Okay2"), FnItem("okay2")>>,
          ("mem::drop" :> MemDropBody)
          @@ ("okay2" :> Body(<<
              BB(<<>>, New(1, 1)),
              BB(<<AssignRef(3, 1)>>, Lock(3, "Okay2", 2, 2, 23)),
              BB(<<AssignUse(5, Move(2))>>, Call("mem::drop", <<Move(5)>>, 4, 3, 0)),
              BB(<<StorageDead(5), AssignRef(7, 1)>>, Lock(7, "Okay2", 6, 4, 25)),
              BB(<<>>, Drop(6, 5)),
              BB(<<>>, Return)>>)),
          <<StdMutex>>)

Deadlock3 ==
    Crate("deadlock3", <<StructItem("Deadlock3"), FnItem("deadlock3")>>,
          "deadlock3" :> Body(<<
              BB(<<>>, New(2, 1)),
              BB(<<AssignRef(4, 2)>>, Lock(4, "Deadlock3", 3, 2, 38)),
              BB(<<AssignOther(5)>>, SwitchInt(<<4>>, 3)),
              BB(<<AssignRef(7, 2)>>, Lock(7, "Deadlock3", 6, 5, 41)),
              BB(<<>>, Call("_print", <<Move(9)>>, 8, 6, 0)),
              BB(<<>>, Drop(6, 6)),
              BB(<<>>, Drop(3, 7)),
              BB(<<>>, Return)>>),
          <<StdMutex>>)

\* deadlock3 written with match n { 2 => lock, _ => print }: the acquisition
\* is a non-otherwise target
Deadlock3Match ==
    Crate("deadlock3_match", <<StructItem("Deadlock3"), FnItem("deadlock3")>>,
          "deadlock3" :> Body(<<
              BB(<<>>, New(2, 1)),
              BB(<<AssignRef(4, 2)>>, Lock(4, "Deadlock3", 3, 2, 38)),
              BB(<<>>, SwitchInt(<<3>>, 4)),
              BB(<<AssignRef(7, 2)>>, Lock(7, "Deadlock3", 6, 5, 41)),
              BB(<<>>, Call("_print", <<Move(9)>>, 8, 6, 0)),
              BB(<<>>, Drop(6, 6)),
              BB(<<>>, Drop(3, 7)),
              BB(<<>>, Return)>>),
          <<StdMutex>>)

Deadlock4 ==
    Crate("deadlock4", <<StructItem("Deadlock4"), FnItem("deadlock4")>>,
          "deadlock4" :> Body(<<
              BB(<<>>, New(2, 1)),
              BB(<<AssignRef(4, 2)>>, Lock(4, "Deadlock4", 3, 2, 50)),
              BB(<<AssignOther(5)>>, SwitchInt(<<4>>, 3)),
              BB(<<>>, Call("_print", <<Move(9)>>, 8, 8, 0)),
              BB(<<AssignOther(10)>>, SwitchInt(<<6>>, 5)),
              BB(<<AssignRef(12, 2)>>, Lock(12, "Deadlock4", 7, 7, 55)),
              BB(<<>>, Call("_print", <<Move(14)>>, 13, 8, 0)),
              BB(<<>>, Drop(7, 8)),
              BB(<<>>, Drop(3, 9)),
              BB(<<>>, Return)>>),
          <<StdMutex>>)

Deadlock5 ==
    Crate("deadlock5", <<StructItem("Deadlock5a"), StructItem("Deadlock5b"), FnItem("deadlock5")>>,
          "deadlock5" :> Body(<<
              BB(<<>>, New(2, 1)),
              BB(<<>>, New(3, 2)),
              BB(<<AssignOther(4)>>, SwitchInt(<<7>>, 3)),
              BB(<<AssignRef(6, 2)>>, Lock(6, "Deadlock5a", 5, 4, 83)),
              BB(<<AssignRef(8, 3)>>, Lock(8, "Deadlock5b", 7, 5, 84)),
              BB(<<>>, Drop(7, 6)),
              BB(<<>>, Drop(5, 11)),
              BB(<<AssignRef(10, 3)>>, Lock(10, "Deadlock5b", 9, 8, 86)),
              BB(<<AssignRef(12, 2)>>, Lock(12, "Deadlock5a", 11, 9, 87)),
              BB(<<>>, Drop(11, 10)),
              BB(<<>>, Drop(9, 11)),
              BB(<<>>, Return)>>),
          <<StdMutex>>)

Deadlock6 ==
    Crate("deadlock6", <<StructItem("Deadlock6"), FnItem("deadlock6")>>,
          "deadlock6" :> Body(<<
              BB(<<>>, New(1, 1)),
              BB(<<AssignRef(3, 1)>>, Lock(3, "Deadlock6", 4, 2, 96)),
              BB(<<AssignUse(5, Move(4)), AssignUse(2, Move(5)), StorageDead(5), StorageDead(4),
                   AssignRef(7, 1)>>, Lock(7, "Deadlock6", 6, 3, 101)),
              BB(<<>>, Drop(6, 4)),
              BB(<<>>, Drop(2, 5)),
              BB(<<>>, Return)>>),
          <<StdMutex>>)

Okay7 ==
    Crate("okay7", <<StructItem("Okay7"), FnItem("okay7")>>,
          "okay7" :> Body(<<
              BB(<<>>, New(1, 1)),
              BB(<<AssignRef(3, 1)>>, Lock(3, "Okay7", 2, 2, 120)),
              BB(<<>>, Drop(2, 1))>>),
          <<StdMutex>>)

Okay8 ==
    Crate("okay8", <<StructItem("Okay8"), FnItem("okay8")>>,
          "okay8" :> Body(<<
              BB(<<>>, New(1, 1)),
              BB(<<>>, Call("IntoIterator::into_iter", <<Const>>, 2, 2, 0)),
              BB(<<AssignRef(4, 2)>>, Call("Iterator::next", <<Move(4)>>, 3, 3, 0)),
              BB(<<AssignOther(5)>>, SwitchInt(<<10, 4>>, 9)),
              BB(<<AssignUse(6, Copy(3))>>, SwitchInt(<<7>>, 5)),
              BB(<<AssignRef(8, 1)>>, Lock(8, "Okay8", 7, 6, 130)),
              BB(<<>>, Drop(7, 2)),
              BB(<<AssignRef(10, 1)>>, Lock(10, "Okay8", 9, 8, 132)),
              BB(<<>>, Drop(9, 2)),
              BB(<<>>, Unreachable),
              BB(<<>>, Return)>>),
          <<StdMutex>>)

\* okay15 with work done under the guard: loop { let guard = mutex.lock(); work(); }
Okay15 ==
    Crate("okay15", <<StructItem("Okay15"), FnItem("work"), FnItem("okay15")>>,
          ("work" :> Body(<<BB(<<>>, Return)>>))
          @@ ("okay15" :> Body(<<
              BB(<<>>, New(1, 1)),
              BB(<<>>, Goto(2)),
              BB(<<AssignRef(3, 1)>>, Lock(3, "Okay15", 2, 3, 254)),
              BB(<<>>, Call("work", <<>>, 4, 4, 0)),
              BB(<<>>, Drop(2, 1))>>)),
          <<StdMutex>>)

Deadlock9 ==
    Crate("deadlock9", <<StructItem("Test"), StructItem("Deadlock9"), FnItem("deadlock9")>>,
          "deadlock9" :> Body(<<
              BB(<<>>, New(1, 1)),
              BB(<<AssignRef(4, 1)>>, Lock(4, "Deadlock9", 3, 2, 146)),
              BB(<<AssignAggregate(2, <<Move(3)>>), AssignRef(6, 1)>>, Lock(6, "Deadlock9", 5, 3, 149)),
              BB(<<>>, Drop(5, 4)),
              BB(<<>>, Drop(2, 5)),
              BB(<<>>, Return)>>),
          <<StdMutex>>)

Okay9 ==
    Crate("okay9", <<StructItem("Test2"), StructItem("Okay9"), FnItem("okay9")>>,
          ("mem::drop" :> MemDropBody)
          @@ ("okay9" :> Body(<<
              BB(<<>>, New(1, 1)),
              BB(<<AssignRef(4, 1)>>, Lock(4, "Okay9", 3, 2, 161)),
              BB(<<AssignAggregate(2, <<Move(3)>>), AssignUse(6, Move(2))>>,
                 Call("mem::drop", <<Move(6)>>, 5, 3, 0)),
              BB(<<AssignRef(8, 1)>>, Lock(8, "Okay9", 7, 4, 166)),
              BB(<<>>, Drop(7, 5)),
              BB(<<>>, Return)>>)),
          <<StdMutex>>)

Deadlock10 ==
    Crate("deadlock10", <<StructItem("Deadlock10"), FnItem("deadlock10")>>,
          ("Result::unwrap" :> UnwrapBody)
          @@ ("deadlock10" :> Body(<<
              BB(<<>>, New(1, 1)),
              BB(<<AssignRef(4, 1)>>, Lock(4, "Deadlock10", 3, 2, 173)),
              BB(<<>>, Call("Result::unwrap", <<Move(3)>>, 2, 3, 0)),
              BB(<<StorageDead(3), AssignRef(7, 1)>>, Lock(7, "Deadlock10", 6, 4, 174)),
              BB(<<>>, Call("Result::unwrap", <<Move(6)>>, 5, 5, 0)),
              BB(<<StorageDead(6)>>, Drop(5, 6)),
              BB(<<>>, Drop(2, 7)),
              BB(<<>>, Return)>>)),
          <<StdMutex>>)

Inner13(T, span) ==
    Body(<<BB(<<AssignRef(3, 1)>>, Lock(3, T, 2, 1, span)),
           BB(<<>>, Drop(2, 2)),
           BB(<<>>, Return)>>)

Deadlock13 ==
    Crate("deadlock13",
          <<StructItem("Deadlock13a"), StructItem("Deadlock13b"), FnItem("deadlock13"),
            FnItem("deadlock13::inner")>>,
          ("mem::drop" :> MemDropBody) @@ ("deadlock13::inner" :> Inner13("Deadlock13b", 208))
          @@ ("deadlock13" :> Body(<<
              BB(<<>>, New(1, 1)),
              BB(<<>>, New(2, 2)),
              BB(<<AssignRef(4, 1)>>, Lock(4, "Deadlock13a", 3, 3, 205)),
              BB(<<AssignRef(6, 2)>>, Call("deadlock13::inner", <<Move(6)>>, 5, 4, 0)),
              BB(<<AssignUse(8, Move(3))>>, Call("mem::drop", <<Move(8)>>, 7, 5, 0)),
              BB(<<AssignRef(10, 2)>>, Lock(10, "Deadlock13b", 9, 6, 214)),
              BB(<<AssignRef(12, 1)>>, Lock(12, "Deadlock13a", 11, 7, 215)),
              BB(<<>>, Drop(11, 8)),
              BB(<<>>, Drop(9, 9)),
              BB(<<>>, Return)>>)),
          <<StdMutex>>)

Okay13 ==
    Crate("okay13",
          <<StructItem("Okay13a"), StructItem("Okay13b"), FnItem("okay13"), FnItem("okay13::inner")>>,
          ("mem::drop" :> MemDropBody) @@ ("okay13::inner" :> Inner13("Okay13b", 227))
          @@ ("okay13" :> Body(<<
              BB(<<>>, New(1, 1)),
              BB(<<>>, New(2, 2)),
              BB(<<AssignRef(4, 1)>>, Lock(4, "Okay13a", 3, 3, 224)),
              BB(<<AssignRef(6, 2)>>, Call("okay13::inner", <<Move(6)>>, 5, 4, 0)),
              BB(<<AssignUse(8, Move(3))>>, Call("mem::drop", <<Move(8)>>, 7, 5, 0)),
              BB(<<AssignRef(10, 1)>>, Lock(10, "Okay13a", 9, 6, 233)),
              BB(<<AssignRef(12, 2)>>, Lock(12, "Okay13b", 11, 7, 234)),
              BB(<<>>, Drop(11, 8)),
              BB(<<>>, Drop(9, 9)),
              BB(<<>>, Return)>>)),
          <<StdMutex>>)

Deadlock14 ==
    Crate("deadlock14",
          <<StructItem("CustomGuard"), StructItem("Deadlock14"), FnItem("deadlock14"),
            FnItem("deadlock14::inner")>>,
          ("Result::unwrap" :> UnwrapBody)
          @@ ("deadlock14::inner" :> Body(<<
              BB(<<AssignRef(4, 1)>>, Lock(4, "Deadlock14", 3, 1, 242)),
              BB(<<>>, Call("Result::unwrap", <<Move(3)>>, 2, 2, 0)),
              BB(<<AssignAggregate(0, <<Move(2)>>)>>, Return)>>))
          @@ ("deadlock14" :> Body(<<
              BB(<<>>, New(1, 1)),
              BB(<<AssignRef(3, 1)>>, Call("deadlock14::inner", <<Move(3)>>, 2, 2, 246)),
              BB(<<AssignRef(5, 1)>>, Call("deadlock14::inner", <<Move(5)>>, 4, 3, 247)),
              BB(<<>>, Drop(4, 4)),
              BB(<<>>, Drop(2, 5)),
              BB(<<>>, Return)>>)),
          <<StdMutex>>)

Deadlock15 ==
    Crate("deadlock15", <<StructItem("Deadlock15"), FnItem("deadlock15")>>,
          "deadlock15" :> Body(<<
              BB(<<AssignRef(3, 1)>>, Lock(3, "Deadlock15", 2, 1, 260)),
              BB(<<>>, Call("deadlock15", <<Copy(1)>>, 4, 2, 261)),
              BB(<<>>, Drop(2, 3)),
              BB(<<>>, Return)>>),
          <<StdMutex>>)

\* deadlock15 recursing through a second function: f locks and calls g, g calls f
Deadlock15Mutual ==
    Crate("deadlock15_mutual", <<StructItem("Deadlock15"), FnItem("f"), FnItem("g")>>,
          ("f" :> Body(<<
              BB(<<AssignRef(3, 1)>>, Lock(3, "Deadlock15", 2, 1, 260)),
              BB(<<>>, Call("g", <<Copy(1)>>, 4, 2, 261)),
              BB(<<>>, Drop(2, 3)),
              BB(<<>>, Return)>>))
          @@ ("g" :> Body(<<
              BB(<<>>, Call("f", <<Copy(1)>>, 2, 1, 262)),
              BB(<<>>, Return)>>)),
          <<StdMutex>>)

Fn16(X, Y, span) ==
    Body(<<BB(<<>>, New(1, 1)),
           BB(<<>>, New(2, 2)),
           BB(<<AssignRef(4, 1)>>, Lock(4, X, 3, 3, span)),
           BB(<<AssignRef(6, 2)>>, Lock(6, Y, 5, 4, span + 1)),
           BB(<<>>, Drop(5, 5)),
           BB(<<>>, Drop(3, 6)),
           BB(<<>>, Return)>>)

Deadlock16 ==
    Crate("deadlock16",
          <<StructItem("Deadlock16a"), StructItem("Deadlock16b"), StructItem("Deadlock16c"),
            FnItem("deadlock16a"), FnItem("deadlock16b"), FnItem("deadlock16c")>>,
          ("deadlock16a" :> Fn16("Deadlock16a", "Deadlock16b", 270))
          @@ ("deadlock16b" :> Fn16("Deadlock16b", "Deadlock16c", 277))
          @@ ("deadlock16c" :> Fn16("Deadlock16c", "Deadlock16a", 284)),
          <<StdMutex>>)

\* seed scenarios 6 and 7 of the analyser: the guard handed to a callee (_4 = move _2;
\* _3 = callee(move _4)), then a second acquisition of the same class
HandOver(name, callee, calleeBody) ==
    Crate(name, <<FnItem(callee), FnItem("caller")>>,
          (callee :> calleeBody) @@ ("log" :> Body(<<BB(<<>>, Return)>>))
          @@ ("caller" :> Body(<<
              BB(<<>>, New(1, 1)),
              BB(<<AssignRef(9, 1)>>, Lock(9, "usize", 2, 2, 1)),
              BB(<<AssignUse(4, Move(2))>>, Call(callee, <<Move(4)>>, 3, 3, 2)),
              BB(<<AssignRef(6, 1)>>, Lock(6, "usize", 5, 4, 3)),
              BB(<<>>, Drop(5, 5)),
              BB(<<>>, Drop(3, 6)),
              BB(<<>>, Return)>>)),
          <<StdMutex>>)

Seed6 == HandOver("seed6", "return_guard", ReturnGuardBody)
Seed7 == HandOver("seed7", "drop_guard", DropGuardBody)

\* the guard dropped on one branch and handed over, as the second argument, on the
\* other, to a callee that returns it on one branch and drops it on the other:
\*   fn keep_if(c, guard) -> Option<MutexGuard> { if c { Some(guard) } else { drop(guard); None } }
\*   fn caller(c) { let g = m.lock();
\*                  if c { drop(g) } else { let k = keep_if(c, g); let h = m.lock(); } }
ReturnOrDrop ==
    Crate("return_or_drop", <<FnItem("keep_if"), FnItem("caller")>>,
          ("keep_if" :> Body(<<
              BB(<<>>, SwitchInt(<<1>>, 2)),
              BB(<<AssignAggregate(0, <<Const, Move(2)>>)>>, Goto(3)),
              BB(<<>>, Drop(2, 3)),
              BB(<<>>, Return)>>))
          @@ ("caller" :> Body(<<
              BB(<<>>, New(1, 1)),
              BB(<<AssignRef(9, 1)>>, Lock(9, "usize", 2, 2, 1)),
              BB(<<>>, SwitchInt(<<3>>, 4)),
              BB(<<>>, Drop(2, 8)),
              BB(<<AssignUse(4, Move(2))>>, Call("keep_if", <<Const, Move(4)>>, 3, 5, 2)),
              BB(<<AssignRef(6, 1)>>, Lock(6, "usize", 5, 6, 3)),
              BB(<<>>, Drop(5, 7)),
              BB(<<>>, Drop(3, 8)),
              BB(<<>>, Return)>>)),
          <<StdMutex>>)

\* fn return_guard_if(guard, c) -> MutexGuard { if c { log(); } guard }
ReturnIfBody ==
    Body(<<BB(<<>>, SwitchInt(<<2>>, 1)),
           BB(<<>>, Call("log", <<>>, 3, 2, 0)),
           BB(<<AssignUse(0, Move(1))>>, Return)>>)

\* fn drop_guard_if(guard, c) { if c { log(); } }
DropIfBody ==
    Body(<<BB(<<>>, SwitchInt(<<2>>, 1)),
           BB(<<>>, Call("log", <<>>, 3, 2, 0)),
           BB(<<>>, Drop(1, 3)),
           BB(<<>>, Return)>>)

\* fn return_guard_match(guard, n) -> MutexGuard { match n { 0 => log(), _ => {} } guard }
ReturnMatchBody ==
    Body(<<BB(<<>>, SwitchInt(<<1>>, 2)),
           BB(<<>>, Call("log", <<>>, 3, 2, 0)),
           BB(<<AssignUse(0, Move(1))>>, Return)>>)

ReturnIf == HandOver("return_if", "return_guard_if", ReturnIfBody)
DropIf == HandOver("drop_if", "drop_guard_if", DropIfBody)
ReturnMatch == HandOver("return_match", "return_guard_match", ReturnMatchBody)

\* let g2 = return_guard(g); let g3 = return_guard(g2); let _g4 = m.lock();
ReturnTwice ==
    Crate("return_twice", <<FnItem("return_guard"), FnItem("caller")>>,
          ("return_guard" :> ReturnGuardBody)
          @@ ("caller" :> Body(<<
              BB(<<>>, New(1, 1)),
              BB(<<AssignRef(9, 1)>>, Lock(9, "usize", 2, 2, 1)),
              BB(<<AssignUse(4, Move(2))>>, Call("return_guard", <<Move(4)>>, 3, 3, 2)),
              BB(<<AssignUse(6, Move(3))>>, Call("return_guard", <<Move(6)>>, 5, 4, 3)),
              BB(<<AssignRef(8, 1)>>, Lock(8, "usize", 7, 5, 4)),
              BB(<<>>, Drop(7, 6)),
              BB(<<>>, Drop(5, 7)),
              BB(<<>>, Return)>>)),
          <<StdMutex>>)

\* the guard handed to a function without MIR (extern), to a function pointer, and
\* a function pointer called while the guard stays in the caller
NoMirCrate(name, func, args) ==
    Crate(name, <<FnItem("caller")>>,
          "caller" :> Body(<<
              BB(<<>>, New(1, 1)),
              BB(<<AssignRef(9, 1)>>, Lock(9, "usize", 2, 2, 1)),
              BB(<<>>, Call(func, args, 3, 3, 2)),
              BB(<<AssignRef(6, 1)>>, Lock(6, "usize", 5, 4, 3)),
              BB(<<>>, Drop(5, 5)),
              BB(<<>>, Drop(2, 6)),
              BB(<<>>, Return)>>),
          <<StdMutex>>)

ExternTake == NoMirCrate("extern_take", "ffi_take", <<Move(2)>>)
FnPtrTake == NoMirCrate("fnptr_take", NoFn, <<Move(2)>>)
FnPtrCall == NoMirCrate("fnptr_call", NoFn, <<Const>>)

\* fn get(m: &Mutex<u8>) -> LockResult<MutexGuard<u8>> { m.lock() }, never called
UncalledReturn ==
    Crate("uncalled_return", <<FnItem("get")>>,
          "get" :> Body(<<
              BB(<<AssignRef(2, 1)>>, Lock(2, "u8", 0, 1, 1)),
              BB(<<>>, Return)>>),
          <<StdMutex>>)

\* the guard returned to two callers, each acquiring another lock while it holds it:
\*   fn get() -> MutexGuard<M> { M.lock() }
\*   fn a() { let g = get(); let _x = X.lock(); }
\*   fn b() { let g = get(); let _y = Y.lock(); }
ReturnedToCallers ==
    Crate("returned_to_callers", <<FnItem("get"), FnItem("a"), FnItem("b")>>,
          ("get" :> Body(<<
              BB(<<AssignRef(2, 1)>>, Lock(2, "M", 0, 1, 10)),
              BB(<<>>, Return)>>))
          @@ ("a" :> Body(<<
              BB(<<>>, Call("get", <<>>, 1, 1, 0)),
              BB(<<AssignRef(3, 9)>>, Lock(3, "X", 2, 2, 20)),
              BB(<<>>, Drop(2, 3)),
              BB(<<>>, Drop(1, 4)),
              BB(<<>>, Return)>>))
          @@ ("b" :> Body(<<
              BB(<<>>, Call("get", <<>>, 4, 1, 0)),
              BB(<<AssignRef(3, 9)>>, Lock(3, "Y", 2, 2, 30)),
              BB(<<>>, Drop(2, 3)),
              BB(<<>>, Drop(4, 4)),
              BB(<<>>, Return)>>)),
          <<StdMutex>>)

\* two functions that call, each while holding X, a helper that takes X twice:
\*   fn helper() { let _a = X.lock(); let _b = X.lock(); }
\*   fn p1() { let _g = X.lock(); helper(); }
\*   fn p2() { let _g = X.lock(); helper(); }
HoldAndCall(span) ==
    Body(<<BB(<<AssignRef(1, 9)>>, Lock(1, "X", 2, 1, span)),
           BB(<<>>, Call("helper", <<>>, 3, 2, 0)),
           BB(<<>>, Drop(2, 3)),
           BB(<<>>, Return)>>)
SharedChild ==
    Crate("shared_child", <<FnItem("helper"), FnItem("p1"), FnItem("p2")>>,
          ("helper" :> Body(<<
              BB(<<AssignRef(1, 9)>>, Lock(1, "X", 2, 1, 5)),
              BB(<<AssignRef(3, 9)>>, Lock(3, "X", 4, 2, 6)),
              BB(<<>>, Drop(4, 3)),
              BB(<<>>, Drop(2, 4)),
              BB(<<>>, Return)>>))
          @@ ("p1" :> HoldAndCall(10))
          @@ ("p2" :> HoldAndCall(20)),
          <<StdMutex>>)

\* walks that come back to where they have been:
\*   fn spin() { let _g = L.lock(); loop { work(); } }
\*   fn pass(g: MutexGuard<L>) { pass(g) }
\*   fn hand() { let g = L.lock(); pass(g); }
\*   fn rec(n: u32) -> MutexGuard<L> { if n == 0 { L.lock() } else { rec(n - 1) } }
LoopHolding ==
    Crate("loop_holding", <<FnItem("spin"), FnItem("pass"), FnItem("hand"), FnItem("rec")>>,
          ("spin" :> Body(<<
              BB(<<>>, New(1, 1)),
              BB(<<AssignRef(3, 1)>>, Lock(3, "L", 2, 2, 1)),
              BB(<<>>, Call("work", <<>>, 4, 2, 0))>>))
          @@ ("pass" :> Body(<<
              BB(<<>>, Call("pass", <<Move(1)>>, 0, 1, 0)),
              BB(<<>>, Return)>>))
          @@ ("hand" :> Body(<<
              BB(<<>>, New(1, 1)),
              BB(<<AssignRef(3, 1)>>, Lock(3, "L", 2, 2, 2)),
              BB(<<>>, Call("pass", <<Move(2)>>, 4, 3, 0)),
              BB(<<>>, Return)>>))
          @@ ("rec" :> Body(<<
              BB(<<>>, SwitchInt(<<1>>, 2)),
              BB(<<AssignRef(3, 9)>>, Lock(3, "L", 0, 3, 3)),
              BB(<<>>, Call("rec", <<Const>>, 0, 3, 0)),
              BB(<<>>, Return)>>)),
          <<StdMutex>>)

\* a copy of the guard's slot: let g = m.lock(); let h = copy g;
CopyGuard ==
    Crate("copy_guard", <<FnItem("caller")>>,
          "caller" :> Body(<<
              BB(<<>>, New(1, 1)),
              BB(<<AssignRef(9, 1)>>, Lock(9, "usize", 2, 2, 1)),
              BB(<<AssignUse(3, Copy(2))>>, Drop(2, 3)),
              BB(<<>>, Return)>>),
          <<StdMutex>>)

\* two configured lock targets: std's Mutex locked twice in f, parking_lot's once in g
TwoTargets ==
    Crate("two_targets", <<FnItem("f"), FnItem("g")>>,
          ("f" :> Body(<<
              BB(<<>>, New(1, 1)),
              BB(<<AssignRef(3, 1)>>, Lock(3, "usize", 2, 2, 1)),
              BB(<<AssignRef(5, 1)>>, Lock(5, "usize", 4, 3, 2)),
              BB(<<>>, Drop(4, 4)),
              BB(<<>>, Drop(2, 5)),
              BB(<<>>, Return)>>))
          @@ ("g" :> Body(<<
              BB(<<>>, Call("OtherMutex::new", <<Const>>, 1, 1, 0)),
              BB(<<AssignRef(3, 1)>>, OtherLock(3, "usize", 2, 2, 3)),
              BB(<<>>, Drop(2, 3)),
              BB(<<>>, Return)>>)),
          <<StdMutex, OtherMutex>>)

\* no [[locks]] block configured: no pass runs
NoTargets == Crate("no_targets", <<FnItem("okay1")>>, Okay1.bodies, <<>>)

\* a lock method that is a function of the analysed crate and itself takes the global
\* lock before the one it was asked for:
\*   fn lock<T>(l: &Spin<T>) -> Guard<T> { if l.ordered { let _o = lock(&GLOBAL); } .. }
\*   fn helper() { let _a = lock(&A); }
\*   fn caller() { let _g = lock(&GLOBAL); helper(); }
SpinLock(tmp, T, dest, t, span) == Call("lock", <<MoveRef(tmp, "Spin", T)>>, dest, t, span)
LockInLock ==
    Crate("lock_in_lock", <<FnItem("lock"), FnItem("helper"), FnItem("caller")>>,
          ("lock" :> Body(<<
              BB(<<>>, SwitchInt(<<3>>, 1)),
              BB(<<AssignRef(2, 9)>>, SpinLock(2, "Global", 3, 2, 50)),
              BB(<<>>, Drop(3, 3)),
              BB(<<AssignOther(0)>>, Return)>>))
          @@ ("helper" :> Body(<<
              BB(<<AssignRef(1, 9)>>, SpinLock(1, "A", 2, 1, 55)),
              BB(<<>>, Drop(2, 2)),
              BB(<<>>, Return)>>))
          @@ ("caller" :> Body(<<
              BB(<<AssignRef(1, 9)>>, SpinLock(1, "Global", 2, 1, 60)),
              BB(<<>>, Call("helper", <<>>, 3, 2, 0)),
              BB(<<>>, Drop(2, 3)),
              BB(<<>>, Return)>>)),
          <<Target("Spin", "lock")>>)

\* deadlock1 run from a directory with no lockcheck.toml beside any Cargo.toml above it
ConfigMissing == [Deadlock1 EXCEPT !.name = "config_missing", !.config = "NotFound"]

\* okay1 with a lockcheck.toml that is not a table with a `locks` array
ConfigInvalid == [Okay1 EXCEPT !.name = "config_invalid", !.config = "InvalidFormat"]

\* a helper that calls an extern function before and after taking a lock, called
\* while a guard is held:
\*   fn helper() { ffi_work(); let _b = B.lock(); ffi_work(); }
\*   fn caller() { let _a = A.lock(); helper(); }
ExternInHelper ==
    Crate("extern_in_helper", <<FnItem("helper"), FnItem("caller")>>,
          ("helper" :> Body(<<
              BB(<<>>, Call("ffi_work", <<Const>>, 1, 1, 0)),
              BB(<<>>, New(2, 2)),
              BB(<<AssignRef(9, 2)>>, Lock(9, "B", 3, 3, 20)),
              BB(<<>>, Call("ffi_work", <<Const>>, 4, 4, 0)),
              BB(<<>>, Drop(3, 5)),
              BB(<<>>, Return)>>))
          @@ ("caller" :> Body(<<
              BB(<<>>, New(1, 1)),
              BB(<<AssignRef(9, 1)>>, Lock(9, "A", 2, 2, 10)),
              BB(<<>>, Call("helper", <<Const>>, 3, 3, 0)),
              BB(<<>>, Drop(2, 4)),
              BB(<<>>, Return)>>)),
          <<StdMutex>>)

\* a body with blocks no path from bb0 reaches (bb5, bb6, bb7), which acquire the
\* lock again and call helper:
\*   fn helper() {}
\*   fn dead() { let g = m.lock(); helper(); drop(g) }
DeadBlocks ==
    Crate("dead_blocks", <<FnItem("helper"), FnItem("dead")>>,
          ("helper" :> Body(<<BB(<<>>, Return)>>))
          @@ ("dead" :> Body(<<
              BB(<<>>, New(1, 1)),
              BB(<<AssignRef(9, 1)>>, Lock(9, "usize", 2, 2, 1)),
              BB(<<>>, Call("helper", <<Const>>, 3, 3, 2)),
              BB(<<>>, Drop(2, 4)),
              BB(<<>>, Return),
              BB(<<AssignRef(8, 1)>>, Lock(8, "usize", 5, 6, 3)),
              BB(<<>>, Call("helper", <<Const>>, 6, 7, 4)),
              BB(<<>>, Drop(5, 4))>>)),
          <<StdMutex>>)

\* the guard of the first of two acquisitions of the same class misused in bb3:
\*   let g = m.lock(); let h = m.lock(); <statements>; <terminator>; drop(h); drop(g);
GuardMisuse(name, statements, terminator) ==
    Crate(name, <<FnItem("caller")>>,
          "caller" :> Body(<<
              BB(<<>>, New(1, 1)),
              BB(<<AssignRef(9, 1)>>, Lock(9, "usize", 2, 2, 1)),
              BB(<<AssignRef(6, 1)>>, Lock(6, "usize", 5, 3, 2)),
              BB(statements, terminator),
              BB(<<>>, Drop(5, 5)),
              BB(<<>>, Drop(2, 6)),
              BB(<<>>, Return)>>),
          <<StdMutex>>)

\* a copy of the slot in a use, in an aggregate and in a call argument, a call that
\* writes its result to the slot, and a deinit, storage-live and storage-dead of it
MisusePrograms ==
    {GuardMisuse("copy_use", <<AssignUse(3, Copy(2))>>, Goto(4)),
     GuardMisuse("copy_aggregate", <<AssignAggregate(3, <<Const, Copy(2)>>)>>, Goto(4)),
     GuardMisuse("copy_argument", <<>>, Call("take", <<Const, Copy(2)>>, 3, 4, 0)),
     GuardMisuse("overwritten", <<>>, Call("make", <<Const>>, 2, 4, 0)),
     GuardMisuse("deinit", <<AssignOther(3), Deinit(2)>>, Goto(4)),
     GuardMisuse("storage_live", <<StorageLive(2)>>, Goto(4)),
     GuardMisuse("storage_dead", <<StorageDead(2)>>, Goto(4))}

\* the guard at a Return: still in a slot of the function that acquired it, still in
\* a slot of a callee it was moved into, and moved to the return place on the path a
\* callee takes after the branch that drops it:
\*   fn leak() { let g = m.lock(); let _k = ManuallyDrop::new(g); }
\*   fn forget(g: MutexGuard) { let _k = ManuallyDrop::new(g); }
\*   fn drop_or_return(g: MutexGuard, c) -> Option<MutexGuard> { if c { drop(g); None } else { Some(g) } }
ReturnPrograms ==
    {Crate("leak", <<FnItem("leak")>>,
           "leak" :> Body(<<
               BB(<<>>, New(1, 1)),
               BB(<<AssignRef(9, 1)>>, Lock(9, "usize", 2, 2, 1)),
               BB(<<AssignAggregate(3, <<Move(2)>>)>>, Return)>>),
           <<StdMutex>>),
     HandOver("forget", "forget", Body(<<BB(<<AssignAggregate(2, <<Move(1)>>)>>, Return)>>)),
     HandOver("drop_or_return", "drop_or_return",
              Body(<<BB(<<>>, SwitchInt(<<1>>, 2)),
                     BB(<<>>, Drop(1, 3)),
                     BB(<<AssignAggregate(0, <<Move(1)>>)>>, Goto(3)),
                     BB(<<>>, Return)>>))}

Library ==
    {TesterCrate, Okay1, Deadlock1, Okay2, Deadlock3, Deadlock3Match, Deadlock4, Deadlock5,
     Deadlock6, Okay7, Okay8, Okay15, Deadlock9, Okay9, Deadlock10, Deadlock13, Okay13,
     Deadlock14, Deadlock15, Deadlock15Mutual, Deadlock16, Seed6, Seed7, ReturnIf, DropIf,
     ReturnMatch, ReturnTwice, ExternTake, FnPtrTake, FnPtrCall, UncalledReturn, CopyGuard,
     TwoTargets, NoTargets, LockInLock, ReturnedToCallers,
     SharedChild, LoopHolding, ConfigMissing, ConfigInvalid,
     ExternInHelper, ReturnOrDrop, DeadBlocks}

(***************************************************************************)
(* Lock-order programs: one function per ordered pair (X, Y) of an edge    *)
(* set, acquiring Y while holding X (the shape of deadlock1, deadlock5 and *)
(* deadlock16a/b/c).                                                       *)
(***************************************************************************)
MaxEdges == 2
LockTypes == <<"A", "B", "C">>
EdgeFnName == <<"e1", "e2", "e3", "e4", "e5", "e6", "e7", "e8", "e9">>
AllPairs == {<<x, y>> : x \in 1..Len(LockTypes), y \in 1..Len(LockTypes)}
PairIndex(p) == (p[1] - 1) * Len(LockTypes) + p[2]
PairOf(k) == CHOOSE p \in AllPairs : PairIndex(p) = k

EdgeCrate(E) ==
    LET ks == {PairIndex(p) : p \in E}
        names == {EdgeFnName[k] : k \in ks}
        IndexOf(n) == CHOOSE k \in ks : EdgeFnName[k] = n
        items == SelectSeq([k \in 1..Len(EdgeFnName) |-> FnItem(EdgeFnName[k])],
                           LAMBDA it : it.def_id \in names)
    IN  Crate("edges", items,
              [n \in names |-> Fn16(LockTypes[PairOf(IndexOf(n))[1]],
                                    LockTypes[PairOf(IndexOf(n))[2]], 10 * IndexOf(n))],
              <<StdMutex>>)

EdgeSets == {E \in SUBSET AllPairs : Cardinality(E) >= 1 /\ Cardinality(E) <= MaxEdges}
EdgePrograms == {EdgeCrate(E) : E \in EdgeSets}
Programs == Library \cup EdgePrograms \cup MisusePrograms \cup ReturnPrograms

(***************************************************************************)
(* Pure functions of the pass.                                             *)
(***************************************************************************)
\* a combine that keeps the state it has unless that is Undetermined
combine_first(self, other) == IF self # "Undetermined" THEN self ELSE other

\* GuardState::combine
combine(self, other) ==
    IF self = "Returned" \/ other = "Returned" THEN "Returned"
    ELSE IF self = "Dropped" \/ other = "Dropped" THEN "Dropped"
    ELSE "Undetermined"

\* a join that keeps only the status of the later pass
BitOr_last(self, rhs) == rhs

\* impl BitOr for ErrorStatus
BitOr(self, rhs) == IF self = "Ok" /\ rhs = "Ok" THEN "Ok" ELSE "DeadlockDetected"

\* an exit status that never reports an error
error_emitted_never(self) == FALSE

error_emitted(self) == self = "DeadlockDetected"

\* load_config: Ok, or the error it returns
load_config(crate) == crate.config

\* None is NoFn: the terminator is no call, or its callee is no FnDef constant
get_fn_def_id_from_terminator(terminator) ==
    IF terminator.kind = "Call" THEN terminator.func ELSE NoFn

\* Terminator::successors, the unwind edge last
successors(terminator) ==
    LET normal == IF terminator.kind = "SwitchInt"
                  THEN terminator.targets \o <<terminator.target>>
                  ELSE IF terminator.target # NoBlock THEN <<terminator.target>> ELSE <<>>
    IN  normal \o (IF terminator.unwind # NoBlock THEN <<terminator.unwind>> ELSE <<>>)

\* G applied to the value of x: x is evaluated once, however often G uses it
Let(x, G(_)) == CHOOSE r \in {G(v) : v \in {x}} : TRUE

\* rustc_middle::mir::traversal::reachable: preorder from START_BLOCK, the worklist
\* a stack extended with each visited block's successors; one turn of the worklist
\* loop over t = [worklist, visited, out]
PreorderStep(body, t) ==
    LET idx == t.worklist[Len(t.worklist)]
        rest == SubSeq(t.worklist, 1, Len(t.worklist) - 1)
    IN  IF idx \in t.visited THEN [t EXCEPT !.worklist = rest]
        ELSE [worklist |-> rest \o successors(BlockData(body, idx).terminator),
              visited |-> t.visited \cup {idx},
              out |-> Append(t.out, idx)]

RECURSIVE Preorder(_, _)
Preorder(body, t) ==
    Let(t, LAMBDA v : IF v.worklist = <<>> THEN v.out
                      ELSE Preorder(body, PreorderStep(body, v)))

\* a traversal that yields every block of the body, reached from bb0 or not
reachable_all(body) == [i \in 1..Len(body.blocks) |-> i - 1]

reachable(body) ==
    Preorder(body, [worklist |-> <<START_BLOCK>>, visited |-> {}, out |-> <<>>])

\* TyCtxtExt::try_optimized_mir: Some iff the function has MIR
HasMir(def_id) == def_id \in DOMAIN prog.bodies

peel_refs(ty) == [ty EXCEPT !.refs = 0]

\* the first operand that names current_local as a move or a copy, 0 if none
FirstUse(operands, current_local) ==
    LET hits == {i \in 1..Len(operands) :
                    /\ operands[i].op \in {"Move", "Copy"}
                    /\ operands[i].local = current_local}
    IN  IF hits = {} THEN 0 ELSE CHOOSE i \in hits : \A j \in hits : i <= j

\* a slot transfer that takes a copy for a move and ignores deinit and storage
\* statements
calculate_new_local_lenient(statement, current_local) ==
    IF statement.kind = "Assign" /\ statement.rvalue \in {"Use", "Aggregate"}
       /\ FirstUse(statement.operands, current_local) # 0
    THEN [panic |-> FALSE, local |-> statement.local]
    ELSE [panic |-> FALSE, local |-> current_local]

\* a slot transfer that follows the guard through a use and not into an aggregate
calculate_new_local_use_only(statement, current_local) ==
    LET i == FirstUse(statement.operands, current_local)
    IN  IF statement.kind = "Assign" /\ statement.rvalue \in {"Use", "Aggregate"} /\ i # 0
        THEN IF statement.operands[i].op = "Copy"
             THEN [panic |-> TRUE, local |-> current_local]
             ELSE [panic |-> FALSE,
                   local |-> IF statement.rvalue = "Use" THEN statement.local
                             ELSE current_local]
        ELSE [panic |-> statement.kind \in {"Deinit", "StorageLive", "StorageDead"}
                           /\ statement.local = current_local,
              local |-> current_local]

\* calculate_new_local_after_statement: the new slot, or a panic
calculate_new_local_after_statement(statement, current_local) ==
    LET same == [panic |-> FALSE, local |-> current_local]
        boom == [panic |-> TRUE, local |-> current_local]
    IN  IF statement.kind = "Assign"
        THEN IF statement.rvalue \in {"Use", "Aggregate"}
             THEN LET i == FirstUse(statement.operands, current_local)
                  IN  IF i = 0 THEN same
                      ELSE IF statement.operands[i].op = "Copy" THEN boom
                      ELSE [panic |-> FALSE, local |-> statement.local]
             ELSE same
        ELSE IF statement.kind \in {"Deinit", "StorageLive", "StorageDead"}
                /\ statement.local = current_local
        THEN boom
        ELSE same

\* for statement in basic_block_data.statements.iter()
RECURSIVE FoldStatements(_, _)
FoldStatements(statements, r) ==
    Let(r, LAMBDA v :
        IF statements = <<>> \/ v.panic THEN v
        ELSE FoldStatements(Tail(statements),
                            calculate_new_local_after_statement(Head(statements), v.local)))

\* a lock class map that forgets the classes it handed out
get_lock_class_fresh(m, ty) ==
    [class |-> m.next,
     map |-> [class_to_ty |-> (m.next :> ty) @@ m.class_to_ty,
              ty_to_class |-> (ty :> m.next) @@ m.ty_to_class,
              next |-> m.next + 1]]

\* a map that numbers its classes from 0 on its own, pass by pass
get_lock_class_per_map(m, ty) ==
    IF ty \in DOMAIN m.ty_to_class
    THEN [class |-> m.ty_to_class[ty], map |-> m]
    ELSE LET class == Cardinality(DOMAIN m.class_to_ty)
         IN  [class |-> class,
              map |-> [class_to_ty |-> (class :> ty) @@ m.class_to_ty,
                       ty_to_class |-> (ty :> class) @@ m.ty_to_class,
                       next |-> m.next + 1]]

\* LockClassTyMap::get_lock_class over m = [class_to_ty, ty_to_class, next]
get_lock_class(m, ty) ==
    IF ty \in DOMAIN m.ty_to_class
    THEN [class |-> m.ty_to_class[ty], map |-> m]
    ELSE [class |-> m.next,
          map |-> [class_to_ty |-> (m.next :> ty) @@ m.class_to_ty,
                   ty_to_class |-> (ty :> m.next) @@ m.ty_to_class,
                   next |-> m.next + 1]]

\* LockClassTyMap::get_ty
get_ty(class) == class_to_ty[class]

is_terminator_lock_invocation(pass_target, terminator) ==
    LET def_id == get_fn_def_id_from_terminator(terminator)
    IN  def_id # NoFn /\ def_id = pass_target.lock_method

\* lock_class_from_terminator: [some, panic, class, map]
lock_class_from_terminator(pass_target, terminator, m) ==
    LET none == [some |-> FALSE, panic |-> FALSE, class |-> 0, map |-> m]
        locks == {i \in 1..Len(terminator.args) :
                     LET arg_type == peel_refs(terminator.args[i].ty)
                     IN  arg_type.adt # "none" /\ arg_type.adt = pass_target.lock}
    IN  IF ~is_terminator_lock_invocation(pass_target, terminator) THEN none
        ELSE IF locks = {} THEN none
        ELSE LET i == CHOOSE i \in locks : \A j \in locks : i <= j
                 generic_args == peel_refs(terminator.args[i].ty).generics
             IN  IF Len(generic_args) # 1 THEN [none EXCEPT !.panic = TRUE]
                 ELSE LET r == get_lock_class(m, generic_args[1])
                      IN  [some |-> TRUE, panic |-> FALSE, class |-> r.class, map |-> r.map]

\* LockInvocation::new
NewLockInvocation(class, span) == [class |-> class, child_invocations |-> {}, span |-> span]

\* FunctionReturnMap::insert_return_location
insert_return_location(rm, fn_def_id, return_location) ==
    IF fn_def_id \in DOMAIN rm
    THEN [rm EXCEPT ![fn_def_id] = @ \cup {return_location}]
    ELSE (fn_def_id :> {return_location}) @@ rm

\* an iteration that yields one of the recorded return locations only
iter_return_locations_one(rm, fn_def_id) ==
    IF fn_def_id \in DOMAIN rm
    THEN [panic |-> FALSE,
          locations |-> {CHOOSE return_location \in rm[fn_def_id] : TRUE}]
    ELSE [panic |-> TRUE, locations |-> {}]

\* FunctionReturnMap::iter_return_locations: indexing the map with a function it
\* has no entry for panics
iter_return_locations(rm, fn_def_id) ==
    IF fn_def_id \in DOMAIN rm
    THEN [panic |-> FALSE, locations |-> rm[fn_def_id]]
    ELSE [panic |-> TRUE, locations |-> {}]

\* collect_invocations_for_body over st = [inv, rm, map, panic]: the body of its
\* loop for one block, the blocks taken in reachable order
ScanBlock(pass_target, def_id, body, basic_block, st) ==
    LET terminator == BlockData(body, basic_block).terminator
        called_fn_def_id == get_fn_def_id_from_terminator(terminator)
    IN  Let(lock_class_from_terminator(pass_target, terminator, st.map), LAMBDA lc :
            IF lc.panic THEN [st EXCEPT !.panic = TRUE]
            ELSE IF lc.some
            THEN [st EXCEPT !.map = lc.map,
                            !.inv = (Bbid(def_id, basic_block)
                                       :> NewLockInvocation(lc.class, terminator.span)) @@ @]
            ELSE IF called_fn_def_id # NoFn /\ terminator.target # NoBlock
            THEN [st EXCEPT !.rm = insert_return_location(@, called_fn_def_id,
                      [return_bbid |-> Bbid(def_id, terminator.target),
                       return_local |-> terminator.local])]
            ELSE st)

RECURSIVE ScanBlocks(_, _, _, _, _)
ScanBlocks(pass_target, def_id, body, blocks, st) ==
    Let(st, LAMBDA v :
        IF blocks = <<>> \/ v.panic THEN v
        ELSE ScanBlocks(pass_target, def_id, body, Tail(blocks),
                        ScanBlock(pass_target, def_id, body, Head(blocks), v)))

collect_invocations_for_body(pass_target, def_id, body, st) ==
    Let(reachable(body), LAMBDA blocks : ScanBlocks(pass_target, def_id, body, blocks, st))

(***************************************************************************)
(* The guard-flow collector (DependantClassCollector).                     *)
(***************************************************************************)
\* a sweep that does not descend into the functions the swept function calls
RECURSIVE SweepBlocksShallow(_, _, _)
SweepBlocksShallow(fn_def_id, blocks, c) ==
    IF blocks = <<>> THEN c
    ELSE SweepBlocksShallow(fn_def_id, Tail(blocks),
             IF Bbid(fn_def_id, Head(blocks)) \in DOMAIN invocations
             THEN [c EXCEPT !.dependant_classes = @ \cup {Bbid(fn_def_id, Head(blocks))}]
             ELSE c)

\* collect_all_invocations over c = [dependant_classes, visited_functions]
RECURSIVE collect_all_invocations(_, _)
RECURSIVE SweepBlocks(_, _, _)
collect_all_invocations(fn_def_id, c) ==
    Let(c, LAMBDA v :
        IF fn_def_id \in v.visited_functions THEN v
        ELSE IF ~HasMir(fn_def_id) THEN [v EXCEPT !.visited_functions = @ \cup {fn_def_id}]
        ELSE Let(reachable(prog.bodies[fn_def_id]), LAMBDA blocks :
                 SweepBlocks(fn_def_id, blocks,
                             [v EXCEPT !.visited_functions = @ \cup {fn_def_id}])))

\* the loop of collect_all_invocations over the reachable blocks
SweepBlocks(fn_def_id, blocks, c) ==
    Let(c, LAMBDA v :
        IF blocks = <<>> THEN v
        ELSE LET bbid == Bbid(fn_def_id, Head(blocks))
                 called_fn_def_id ==
                     get_fn_def_id_from_terminator(
                         BlockData(prog.bodies[fn_def_id], Head(blocks)).terminator)
             IN  SweepBlocks(fn_def_id, Tail(blocks),
                     IF bbid \in DOMAIN invocations
                     THEN [v EXCEPT !.dependant_classes = @ \cup {bbid}]
                     ELSE IF called_fn_def_id # NoFn
                     THEN collect_all_invocations(called_fn_def_id, v)
                     ELSE v))

\* one activation of collect_inner
Frame(bbid, current_local, examine_returns) ==
    [def_id |-> bbid.def_id, basic_block |-> bbid.basic_block, current_local |-> current_local,
     guard_state |-> "Undetermined", examine_returns |-> examine_returns,
     pc |-> "block", pend |-> <<>>, pendRet |-> {}]

Top == stack[Len(stack)]
SetTop(f) == [stack EXCEPT ![Len(stack)] = f]
Pop == SubSeq(stack, 1, Len(stack) - 1)

\* collect_inner, the Call arm: f is the frame after the block's statements
CallOutcome(f, terminator, o) ==
    LET i == FirstUse(terminator.args, f.current_local)
        fn_def_id == get_fn_def_id_from_terminator(terminator)
    IN  IF terminator.local = f.current_local THEN [o EXCEPT !.act = "panic"]
        ELSE IF i # 0 /\ terminator.args[i].op = "Copy" THEN [o EXCEPT !.act = "panic"]
        ELSE IF i # 0 /\ fn_def_id = NoFn
        THEN [o EXCEPT !.act = "return", !.value = combine(f.guard_state, "Dropped")]
        ELSE IF i # 0
        THEN [o EXCEPT !.act = "call", !.frame = [f EXCEPT !.pc = "call"],
                       !.callee = Frame(fn_start(fn_def_id), i, FALSE)]
        ELSE Let(IF fn_def_id # NoFn
                 THEN collect_all_invocations(fn_def_id,
                          [dependant_classes |-> o.dependant_classes,
                           visited_functions |-> o.visited_functions])
                 ELSE [dependant_classes |-> o.dependant_classes,
                       visited_functions |-> o.visited_functions],
                 LAMBDA swept :
                     IF terminator.target # NoBlock
                     THEN [o EXCEPT !.act = "continue",
                                    !.frame = [f EXCEPT !.basic_block = terminator.target],
                                    !.dependant_classes = swept.dependant_classes,
                                    !.visited_functions = swept.visited_functions]
                     ELSE [o EXCEPT !.act = "return",
                                    !.value = combine(f.guard_state, "Undetermined"),
                                    !.dependant_classes = swept.dependant_classes,
                                    !.visited_functions = swept.visited_functions])

\* a SwitchInt arm that follows the otherwise target only
SwitchArmOtherwiseOnly(f, terminator, o) ==
    [o EXCEPT !.act = "continue", !.frame = [f EXCEPT !.pc = "switch", !.pend = <<>>]]

\* a Drop arm that never recognises the drop of the guard
DropArmIgnored(f, terminator, o) ==
    [o EXCEPT !.act = "continue", !.frame = [f EXCEPT !.basic_block = terminator.target]]

\* collect_inner, the SwitchInt arm: the non-otherwise targets are queued for recursion
SwitchArm(f, terminator, o) ==
    [o EXCEPT !.act = "continue",
              !.frame = [f EXCEPT !.pc = "switch", !.pend = terminator.targets]]

\* collect_inner, the Drop arm
DropArm(f, terminator, o) ==
    IF terminator.local = f.current_local
    THEN [o EXCEPT !.act = "return", !.value = combine(f.guard_state, "Dropped")]
    ELSE [o EXCEPT !.act = "continue",
                   !.frame = [f EXCEPT !.basic_block = terminator.target]]

\* a Return arm that takes the guard for returned wherever it is
ReturnArmAnySlot(f, terminator, o) ==
    IF f.examine_returns
    THEN Let(iter_return_locations(return_map, f.def_id),
             LAMBDA it :
                 IF it.panic THEN [o EXCEPT !.act = "panic"]
                 ELSE [o EXCEPT !.act = "continue",
                                !.frame = [f EXCEPT !.pc = "ret", !.pendRet = it.locations]])
    ELSE [o EXCEPT !.act = "return", !.value = combine(f.guard_state, "Returned")]

\* collect_inner, the two Return arms: with examine_returns the recorded return
\* locations of the function are queued for recursion, without it the walk ends with
\* Returned; both panic when the guard is not in the return place
ReturnArm(f, terminator, o) ==
    IF f.current_local # RETURN_PLACE THEN [o EXCEPT !.act = "panic"]
    ELSE IF f.examine_returns
    THEN Let(iter_return_locations(return_map, f.def_id),
             LAMBDA it :
                 IF it.panic THEN [o EXCEPT !.act = "panic"]
                 ELSE [o EXCEPT !.act = "continue",
                                !.frame = [f EXCEPT !.pc = "ret", !.pendRet = it.locations]])
    ELSE [o EXCEPT !.act = "return", !.value = combine(f.guard_state, "Returned")]

\* collect_inner, the match on the terminator
Dispatch(f, terminator, o) ==
    LET Ret(v) == [o EXCEPT !.act = "return", !.value = combine(f.guard_state, v)]
        Cont(b) == [o EXCEPT !.act = "continue", !.frame = [f EXCEPT !.basic_block = b]]
        Boom == [o EXCEPT !.act = "panic"]
        kind == terminator.kind
    IN  CASE kind \in {"Goto", "Assert", "FalseEdge", "FalseUnwind"} -> Cont(terminator.target)
          [] kind = "SwitchInt" -> SwitchArm(f, terminator, o)
          [] kind \in {"UnwindResume", "UnwindTerminate", "Unreachable"} -> Ret("Undetermined")
          [] kind = "Return" -> ReturnArm(f, terminator, o)
          [] kind = "Drop" -> DropArm(f, terminator, o)
          [] kind = "Call" -> CallOutcome(f, terminator, o)
          [] kind = "InlineAsm" ->
                IF terminator.target # NoBlock THEN Cont(terminator.target)
                ELSE Ret("Undetermined")
          [] OTHER -> Boom

\* a walk that takes every block it passes for a dependant class
MarkDependantAlways(current_bbid, classes) == classes \cup {current_bbid}

\* collect_inner: a walked block that is a lock invocation is a dependant class
MarkDependant(current_bbid, classes) ==
    IF current_bbid \in DOMAIN invocations THEN classes \cup {current_bbid} ELSE classes

\* a caller that takes every callee to drop the guard it is handed
CallReturnedAssumeDropped(f, terminator, state) ==
    [continue |-> FALSE, frame |-> f, value |-> combine(f.guard_state, "Dropped")]

\* collect_inner, the match on the state the callee returned
CallReturned(f, terminator, state) ==
    IF state = "Returned" /\ terminator.target # NoBlock
    THEN [continue |-> TRUE, value |-> "none",
          frame |-> [f EXCEPT !.pc = "block", !.current_local = terminator.local,
                              !.basic_block = terminator.target]]
    ELSE [continue |-> FALSE, frame |-> f,
          value |-> combine(f.guard_state,
                            IF state = "Returned" THEN "Undetermined" ELSE state)]

\* a cut-off that answers with the state the activation has accumulated
CutOffKeepsState(f) ==
    [act |-> "return", value |-> f.guard_state, frame |-> f, callee |-> f,
     visited_blocks |-> visited_blocks,
     dependant_classes |-> dependant_classes,
     visited_functions |-> visited_functions]

\* collect_inner: return GuardState::Undetermined with nothing changed
CutOff(f) ==
    [act |-> "return", value |-> "Undetermined", frame |-> f, callee |-> f,
     visited_blocks |-> visited_blocks,
     dependant_classes |-> dependant_classes,
     visited_functions |-> visited_functions]

\* collect_inner, one turn of its loop past the visited check: the block is entered
\* in visited_blocks, marked, its statements folded and its terminator matched
ProcessBlock(f) ==
    LET current_bbid == Bbid(f.def_id, f.basic_block)
        local_block_pair == [block |-> current_bbid, local |-> f.current_local]
        basic_block_data == BlockData(prog.bodies[f.def_id], f.basic_block)
        marked == [CutOff(f) EXCEPT
                     !.visited_blocks = @ \cup {local_block_pair},
                     !.dependant_classes = MarkDependant(current_bbid, @)]
    IN  Let(FoldStatements(basic_block_data.statements,
                           [panic |-> FALSE, local |-> f.current_local]),
            LAMBDA folded :
                IF folded.panic THEN [marked EXCEPT !.act = "panic"]
                ELSE Dispatch([f EXCEPT !.current_local = folded.local],
                              basic_block_data.terminator, marked))

\* a walk that does not look whether it has been at the block before
BlockOutcomeRevisit(f) ==
    IF ~HasMir(f.def_id) THEN CutOff(f) ELSE ProcessBlock(f)

\* a walk that asks for the body with optimized_mir and not with try_optimized_mir
BlockOutcomeBodyOrPanic(f) ==
    IF ~HasMir(f.def_id) THEN [CutOff(f) EXCEPT !.act = "panic"]
    ELSE IF [block |-> Bbid(f.def_id, f.basic_block), local |-> f.current_local]
                \in visited_blocks
    THEN CutOff(f)
    ELSE ProcessBlock(f)

\* collect_inner, one turn of its loop for the frame f
BlockOutcome(f) ==
    IF ~HasMir(f.def_id) THEN CutOff(f)
    ELSE IF [block |-> Bbid(f.def_id, f.basic_block), local |-> f.current_local]
                \in visited_blocks
    THEN CutOff(f)
    ELSE ProcessBlock(f)

(***************************************************************************)
(* The cycle detector and the diagnostics.                                 *)
(***************************************************************************)
\* a map in which the invocation folded last decides the dependancies of its class
RECURSIVE DepFoldLast(_, _)
DepFoldLast(pending, dm) ==
    IF pending = {} THEN [panic |-> FALSE, map |-> dm]
    ELSE LET bbid == CHOOSE b \in pending : TRUE
             invocation == invocations[bbid]
         IN  DepFoldLast(pending \ {bbid},
                         (invocation.class :>
                             {invocations[child_id].class :
                                 child_id \in invocation.child_invocations \cap DOMAIN invocations})
                         @@ dm)

\* get_dependant_map: [panic, map], folding the invocations in some order
RECURSIVE DepFold(_, _)
DepFold(pending, dm) ==
    IF pending = {} THEN [panic |-> FALSE, map |-> dm]
    ELSE LET bbid == CHOOSE b \in pending : TRUE
             invocation == invocations[bbid]
             current == IF invocation.class \in DOMAIN dm THEN dm[invocation.class] ELSE {}
         IN  IF \E child_id \in invocation.child_invocations : child_id \notin DOMAIN invocations
             THEN [panic |-> TRUE, map |-> dm]
             ELSE DepFold(pending \ {bbid},
                          (invocation.class :>
                              (current \cup {invocations[child_id].class :
                                               child_id \in invocation.child_invocations}))
                          @@ dm)

\* a map that has a key only for the classes under which something is acquired
get_dependant_map_sparse ==
    LET r == DepFold(DOMAIN invocations, <<>>)
    IN  [r EXCEPT !.map = [c \in {k \in DOMAIN r.map : r.map[k] # {}} |-> r.map[c]]]

get_dependant_map == DepFold(DOMAIN invocations, <<>>)

\* the classes with a directed path of length >= 1 from class c in the map dm
DepSuccessors(dm, S) == UNION {dm[c] : c \in S \cap DOMAIN dm}
RECURSIVE DepClosure(_, _)
DepClosure(dm, S) ==
    LET n == S \cup DepSuccessors(dm, S) IN IF n = S THEN S ELSE DepClosure(dm, n)
ReachableFrom(dm, c) == DepClosure(dm, DepSuccessors(dm, {c}))

\* a detector that looks for the back edge in the dependancies of the child only
dependancies_contain_direct(target_class, current_class, dm, visited_classes) ==
    IF current_class \notin DOMAIN dm
    THEN {[result |-> "panic", visited |-> {current_class}]}
    ELSE {[result |-> IF target_class \in dm[current_class] THEN "true" ELSE "false",
           visited |-> {current_class}]}

\* a detector called with target and start exchanged
dependancies_contain_swapped(target_class, current_class, dm, visited_classes) ==
    {[result |-> IF current_class \in ReachableFrom(dm, target_class) THEN "true" ELSE "false",
      visited |-> {target_class}]}

\* dependancies_contain: the set of outcomes [result, visited] over every
\* iteration order of the HashSet of dependancies
RECURSIVE dependancies_contain(_, _, _, _)
RECURSIVE IterDependancies(_, _, _, _)
dependancies_contain(target_class, current_class, dm, visited_classes) ==
    IF current_class \in visited_classes
    THEN {[result |-> "false", visited |-> visited_classes]}
    ELSE LET v1 == visited_classes \cup {current_class}
         IN  IF current_class \notin DOMAIN dm
             THEN {[result |-> "panic", visited |-> v1]}
             ELSE IF target_class \in dm[current_class]
             THEN {[result |-> "true", visited |-> v1]}
             ELSE IterDependancies(target_class, dm[current_class], dm, v1)

IterDependancies(target_class, remaining, dm, visited_classes) ==
    IF remaining = {} THEN {[result |-> "false", visited |-> visited_classes]}
    ELSE UNION { UNION { IF o.result = "false"
                         THEN IterDependancies(target_class, remaining \ {dependant},
                                               dm, o.visited)
                         ELSE {o}
                         : o \in dependancies_contain(target_class, dependant, dm,
                                                      visited_classes) }
                 : dependant \in remaining }

DeadlockError(parent_invocation, child_invocation) ==
    [parent_ty |-> get_ty(parent_invocation.class),
     child_ty |-> get_ty(child_invocation.class),
     parent_span |-> parent_invocation.span,
     child_span |-> child_invocation.span]

\* an emit that takes the child for the parent
emit_deadlock_error_swapped(errs, parent_invocation, child_invocation) ==
    IF \E e \in errs : e.child_span = parent_invocation.span THEN errs
    ELSE errs \cup {DeadlockError(child_invocation, parent_invocation)}

\* an insert into a set ordered and compared on both spans
emit_deadlock_error_by_pair(errs, parent_invocation, child_invocation) ==
    errs \cup {DeadlockError(parent_invocation, child_invocation)}

\* BTreeSet::insert under the Ord of DeadlockError: an equal element stays
emit_deadlock_error(errs, parent_invocation, child_invocation) ==
    IF \E e \in errs : e.child_span = child_invocation.span THEN errs
    ELSE errs \cup {DeadlockError(parent_invocation, child_invocation)}

\* iteration order of the BTreeSet
RECURSIVE SortedErrors(_)
SortedErrors(errs) ==
    IF errs = {} THEN <<>>
    ELSE LET first == CHOOSE e \in errs : \A o \in errs : e.child_span <= o.child_span
         IN  <<first>> \o SortedErrors(errs \ {first})

emit_all_errors(errs) ==
    [diagnostics |-> SortedErrors(errs),
     status |-> IF Cardinality(errs) > 0 THEN "DeadlockDetected" ELSE "Ok"]

(***************************************************************************)
(* The state machine.                                                      *)
(***************************************************************************)
PassState == <<invocations, return_map, scanIdx, pendingInv, curInv, pendChildren,
               dependant_map, errors, reported>>
Collector == <<stack, ret, dependant_classes, visited_blocks, visited_functions>>
TyMap == <<NEXT_LOCK_CLASS, class_to_ty, ty_to_class>>
Driver == <<prog, passIdx, status, passResult>>
Unit == <<inputs, outputs>>

pass_target == prog.targets[passIdx]

\* nothing has run yet
Fresh ==
    /\ passIdx = 1
    /\ status = "Ok"
    /\ passResult = "none"
    /\ exitCode = -1
    /\ NEXT_LOCK_CLASS = 0
    /\ class_to_ty = <<>>
    /\ ty_to_class = <<>>
    /\ invocations = <<>>
    /\ return_map = <<>>
    /\ scanIdx = 1
    /\ pendingInv = {}
    /\ curInv = NoBbid
    /\ pendChildren = {}
    /\ stack = <<>>
    /\ ret = "none"
    /\ dependant_classes = {}
    /\ visited_blocks = {}
    /\ visited_functions = {}
    /\ dependant_map = <<>>
    /\ errors = {}
    /\ reported = {}
    /\ emitted = <<>>

Init ==
    /\ prog \in Programs
    /\ phase = "idle"
    /\ inputs = <<>>
    /\ outputs = <<>>
    /\ Fresh

\* run_passes: the next pass starts with a fresh AnalysisPass
RunPass ==
    /\ phase = "idle"
    /\ load_config(prog) = "Ok"
    /\ passIdx <= Len(prog.targets)
    /\ phase' = "collect"
    /\ class_to_ty' = <<>>
    /\ ty_to_class' = <<>>
    /\ invocations' = <<>>
    /\ return_map' = <<>>
    /\ scanIdx' = 1
    /\ pendingInv' = {}
    /\ curInv' = NoBbid
    /\ pendChildren' = {}
    /\ dependant_map' = <<>>
    /\ errors' = {}
    /\ reported' = {}
    /\ passResult' = "none"
    /\ UNCHANGED <<Unit, prog, passIdx, status, exitCode, NEXT_LOCK_CLASS, Collector, emitted>>

\* collect_invocations: the body of its loop for the HIR item at scanIdx
ScanItemOutcome ==
    LET item == prog.items[scanIdx]
        def_id == item.def_id
        st0 == [inv |-> invocations, rm |-> return_map, panic |-> FALSE,
                map |-> [class_to_ty |-> class_to_ty, ty_to_class |-> ty_to_class,
                         next |-> NEXT_LOCK_CLASS]]
    IN  IF item.kind # "Fn" \/ def_id = LOCK_FILLER_FN_NAME THEN st0
        ELSE IF ~HasMir(def_id) THEN [st0 EXCEPT !.panic = TRUE]
        ELSE collect_invocations_for_body(pass_target, def_id, prog.bodies[def_id], st0)

\* collect_invocations: one HIR item
ScanItem ==
    /\ phase = "collect"
    /\ scanIdx <= Len(prog.items)
    /\ \E st \in {ScanItemOutcome}, last \in {scanIdx = Len(prog.items)} :
           /\ invocations' = st.inv
           /\ return_map' = st.rm
           /\ class_to_ty' = st.map.class_to_ty
           /\ ty_to_class' = st.map.ty_to_class
           /\ NEXT_LOCK_CLASS' = st.map.next
           /\ scanIdx' = scanIdx + 1
           /\ phase' = IF st.panic THEN "panicked" ELSE IF last THEN "flow" ELSE "collect"
           /\ exitCode' = IF st.panic THEN 101 ELSE exitCode
           /\ pendingInv' = IF last /\ ~st.panic THEN DOMAIN st.inv ELSE pendingInv
    /\ UNCHANGED <<Unit, Driver, curInv, pendChildren, Collector, dependant_map, errors,
                   reported, emitted>>

\* collect_dependant_lock_classes: one iteration up to the call of collect
StartQuery ==
    /\ phase = "flow"
    /\ curInv = NoBbid
    /\ \E bbid \in pendingInv :
         \E terminator \in {BlockData(prog.bodies[bbid.def_id], bbid.basic_block).terminator} :
         \E ok \in {terminator.kind = "Call" /\ terminator.target # NoBlock} :
             /\ pendingInv' = pendingInv \ {bbid}
             /\ curInv' = bbid
             /\ phase' = IF ok THEN "flow" ELSE "panicked"
             /\ exitCode' = IF ok THEN exitCode ELSE 101
             /\ stack' = IF ok
                         THEN <<Frame(with_basic_block(bbid, terminator.target),
                                      terminator.local, TRUE)>>
                         ELSE <<>>
    /\ ret' = "none"
    /\ dependant_classes' = {}
    /\ visited_blocks' = {}
    /\ visited_functions' = {}
    /\ UNCHANGED <<Unit, Driver, TyMap, invocations, return_map, scanIdx, pendChildren,
                   dependant_map, errors, reported, emitted>>

\* collect_inner: one turn of the loop of the innermost activation
WalkBlock ==
    /\ phase = "flow"
    /\ stack # <<>>
    /\ ret = "none"
    /\ Top.pc = "block"
    /\ \E o \in {BlockOutcome(Top)} :
           /\ visited_blocks' = o.visited_blocks
           /\ dependant_classes' = o.dependant_classes
           /\ visited_functions' = o.visited_functions
           /\ stack' = CASE o.act = "continue" -> SetTop(o.frame)
                         [] o.act = "return" -> Pop
                         [] o.act = "call" -> Append(SetTop(o.frame), o.callee)
                         [] OTHER -> stack
           /\ ret' = IF o.act = "return" THEN o.value ELSE "none"
           /\ phase' = IF o.act = "panic" THEN "panicked" ELSE phase
           /\ exitCode' = IF o.act = "panic" THEN 101 ELSE exitCode
    /\ UNCHANGED <<Unit, Driver, TyMap, PassState, emitted>>

\* a SwitchInt whose target is walked by the activation that met the SwitchInt, with
\* no recursion: what the target does to the slot stays
SwitchBranchInPlace ==
    /\ phase = "flow"
    /\ stack # <<>>
    /\ ret = "none"
    /\ Top.pc = "switch"
    /\ Top.pend # <<>>
    /\ stack' = SetTop([Top EXCEPT !.pend = Tail(@), !.pc = "block",
                                   !.basic_block = Head(Top.pend)])
    /\ UNCHANGED <<Unit, Driver, TyMap, PassState, exitCode, phase, ret, dependant_classes,
                   visited_blocks, visited_functions, emitted>>

\* SwitchInt: recurse into the next non-otherwise target
SwitchBranch ==
    /\ phase = "flow"
    /\ stack # <<>>
    /\ ret = "none"
    /\ Top.pc = "switch"
    /\ Top.pend # <<>>
    /\ stack' = Append(SetTop([Top EXCEPT !.pend = Tail(@)]),
                       Frame(Bbid(Top.def_id, Head(Top.pend)), Top.current_local,
                             Top.examine_returns))
    /\ UNCHANGED <<Unit, Driver, TyMap, PassState, exitCode, phase, ret, dependant_classes,
                   visited_blocks, visited_functions, emitted>>

\* SwitchInt: combine the state a branch returned
SwitchJoin ==
    /\ phase = "flow"
    /\ stack # <<>>
    /\ ret # "none"
    /\ Top.pc = "switch"
    /\ stack' = SetTop([Top EXCEPT !.guard_state = combine(@, ret)])
    /\ ret' = "none"
    /\ UNCHANGED <<Unit, Driver, TyMap, PassState, exitCode, phase, dependant_classes,
                   visited_blocks, visited_functions, emitted>>

\* SwitchInt: go on in the same activation with the otherwise target
SwitchOtherwise ==
    /\ phase = "flow"
    /\ stack # <<>>
    /\ ret = "none"
    /\ Top.pc = "switch"
    /\ Top.pend = <<>>
    /\ stack' = SetTop([Top EXCEPT
                          !.pc = "block",
                          !.basic_block = BlockData(prog.bodies[Top.def_id],
                                                    Top.basic_block).terminator.target])
    /\ UNCHANGED <<Unit, Driver, TyMap, PassState, exitCode, phase, ret, dependant_classes,
                   visited_blocks, visited_functions, emitted>>

\* Return while examining returns: recurse into one recorded return location
ReturnBranch ==
    /\ phase = "flow"
    /\ stack # <<>>
    /\ ret = "none"
    /\ Top.pc = "ret"
    /\ \E return_location \in Top.pendRet :
         stack' = Append(SetTop([Top EXCEPT !.pendRet = @ \ {return_location}]),
                         Frame(return_location.return_bbid,
                               return_location.return_local, TRUE))
    /\ UNCHANGED <<Unit, Driver, TyMap, PassState, exitCode, phase, ret, dependant_classes,
                   visited_blocks, visited_functions, emitted>>

\* Return while examining returns: combine the state a return location gave
ReturnJoin ==
    /\ phase = "flow"
    /\ stack # <<>>
    /\ ret # "none"
    /\ Top.pc = "ret"
    /\ stack' = SetTop([Top EXCEPT !.guard_state = combine(@, ret)])
    /\ ret' = "none"
    /\ UNCHANGED <<Unit, Driver, TyMap, PassState, exitCode, phase, dependant_classes,
                   visited_blocks, visited_functions, emitted>>

\* Return while examining returns: every return location is done
ReturnDone ==
    /\ phase = "flow"
    /\ stack # <<>>
    /\ ret = "none"
    /\ Top.pc = "ret"
    /\ Top.pendRet = {}
    /\ ret' = Top.guard_state
    /\ stack' = Pop
    /\ UNCHANGED <<Unit, Driver, TyMap, PassState, exitCode, phase, dependant_classes,
                   visited_blocks, visited_functions, emitted>>

\* Call with the guard moved into a resolvable callee: the callee has answered
AfterCall ==
    /\ phase = "flow"
    /\ stack # <<>>
    /\ ret # "none"
    /\ Top.pc = "call"
    /\ \E r \in {CallReturned(Top,
                               BlockData(prog.bodies[Top.def_id],
                                         Top.basic_block).terminator,
                               ret)} :
           /\ stack' = IF r.continue THEN SetTop(r.frame) ELSE Pop
           /\ ret' = r.value
    /\ UNCHANGED <<Unit, Driver, TyMap, PassState, exitCode, phase, dependant_classes,
                   visited_blocks, visited_functions, emitted>>

\* an assignment of the children by lock class: every invocation of the class of the
\* current one receives the set
FinishQueryByClass ==
    /\ phase = "flow"
    /\ curInv # NoBbid
    /\ stack = <<>>
    /\ ret # "none"
    /\ invocations' = [I \in DOMAIN invocations |->
                          IF invocations[I].class = invocations[curInv].class
                          THEN [invocations[I] EXCEPT !.child_invocations = dependant_classes]
                          ELSE invocations[I]]
    /\ curInv' = NoBbid
    /\ ret' = "none"
    /\ dependant_classes' = {}
    /\ visited_blocks' = {}
    /\ visited_functions' = {}
    /\ UNCHANGED <<Unit, Driver, TyMap, exitCode, phase, return_map, scanIdx, pendingInv,
                   pendChildren, stack, dependant_map, errors, reported, emitted>>

\* collect_dependant_lock_classes: collect returned, the children are assigned
FinishQuery ==
    /\ phase = "flow"
    /\ curInv # NoBbid
    /\ stack = <<>>
    /\ ret # "none"
    /\ invocations' = [invocations EXCEPT ![curInv].child_invocations = dependant_classes]
    /\ curInv' = NoBbid
    /\ ret' = "none"
    /\ dependant_classes' = {}
    /\ visited_blocks' = {}
    /\ visited_functions' = {}
    /\ UNCHANGED <<Unit, Driver, TyMap, exitCode, phase, return_map, scanIdx, pendingInv,
                   pendChildren, stack, dependant_map, errors, reported, emitted>>

\* run_pass: get_dependant_map
BuildDepMap ==
    /\ phase = "flow"
    /\ curInv = NoBbid
    /\ pendingInv = {}
    /\ \E dm \in {get_dependant_map} :
           /\ dependant_map' = dm.map
           /\ phase' = IF dm.panic THEN "panicked" ELSE "cycles"
           /\ exitCode' = IF dm.panic THEN 101 ELSE exitCode
           /\ pendingInv' = IF dm.panic THEN {} ELSE DOMAIN invocations
    /\ UNCHANGED <<Unit, Driver, TyMap, invocations, return_map, scanIdx, curInv, pendChildren,
                   Collector, errors, reported, emitted>>

\* run_pass: the outer loop moves to the next invocation
PickInvocation ==
    /\ phase = "cycles"
    /\ pendChildren = {}
    /\ \E bbid \in pendingInv :
         /\ pendingInv' = pendingInv \ {bbid}
         /\ curInv' = bbid
         /\ pendChildren' = invocations[bbid].child_invocations
    /\ UNCHANGED <<Unit, Driver, TyMap, exitCode, phase, invocations, return_map, scanIdx,
                   Collector, dependant_map, errors, reported, emitted>>

\* run_pass: the inner loop examines one child of the current invocation
CheckChild ==
    /\ phase = "cycles"
    /\ \E child_id \in pendChildren :
         \E invocation \in {invocations[curInv]}, child_invocation \in {invocations[child_id]} :
             \E o \in dependancies_contain(invocation.class, child_invocation.class,
                                           dependant_map, {}) :
                /\ pendChildren' = pendChildren \ {child_id}
                /\ errors' = IF o.result = "true"
                             THEN emit_deadlock_error(errors, invocation, child_invocation)
                             ELSE errors
                /\ reported' = IF o.result = "true"
                               THEN reported \cup {<<curInv, child_id>>}
                               ELSE reported
                /\ phase' = IF o.result = "panic" THEN "panicked" ELSE phase
                /\ exitCode' = IF o.result = "panic" THEN 101 ELSE exitCode
    /\ UNCHANGED <<Unit, Driver, TyMap, invocations, return_map, scanIdx, pendingInv, curInv,
                   Collector, dependant_map, emitted>>

\* a pass that emits what it has found as soon as the dependant map is built
EmitAllErrorsEarly ==
    /\ phase = "cycles"
    /\ \E e \in {emit_all_errors(errors)} :
          /\ emitted' = emitted \o e.diagnostics
          /\ passResult' = e.status
    /\ phase' = "returned"
    /\ curInv' = NoBbid
    /\ UNCHANGED <<Unit, prog, passIdx, status, exitCode, TyMap, invocations, return_map,
                   scanIdx, pendingInv, pendChildren, Collector, dependant_map, errors,
                   reported>>

\* run_pass: emit_all_errors and return
EmitAllErrors ==
    /\ phase = "cycles"
    /\ pendChildren = {}
    /\ pendingInv = {}
    /\ \E e \in {emit_all_errors(errors)} :
          /\ emitted' = emitted \o e.diagnostics
          /\ passResult' = e.status
    /\ phase' = "returned"
    /\ curInv' = NoBbid
    /\ UNCHANGED <<Unit, prog, passIdx, status, exitCode, TyMap, invocations, return_map,
                   scanIdx, pendingInv, pendChildren, Collector, dependant_map, errors,
                   reported>>

\* run_passes: status = status | pass.run_pass()
PassReturn ==
    /\ phase = "returned"
    /\ status' = BitOr(status, passResult)
    /\ passIdx' = passIdx + 1
    /\ phase' = "idle"
    /\ UNCHANGED <<Unit, prog, passResult, exitCode, TyMap, PassState, Collector, emitted>>

\* main: the exit code after run_passes returned
Exit ==
    /\ phase = "idle"
    /\ load_config(prog) = "Ok"
    /\ passIdx > Len(prog.targets)
    /\ phase' = "exit"
    /\ exitCode' = IF error_emitted(status) THEN 1 ELSE 0
    /\ UNCHANGED <<Unit, Driver, TyMap, PassState, Collector, emitted>>

\* main: run returned Err from load_config, the error is printed and the process exits
\* with code 1
ExitOnError ==
    /\ phase = "idle"
    /\ load_config(prog) # "Ok"
    /\ phase' = "exit"
    /\ exitCode' = 1
    /\ UNCHANGED <<Unit, Driver, TyMap, PassState, Collector, emitted>>

Next ==
    \/ ExitOnError
    \/ RunPass
    \/ ScanItem
    \/ StartQuery
    \/ WalkBlock
    \/ SwitchBranch
    \/ SwitchJoin
    \/ SwitchOtherwise
    \/ ReturnBranch
    \/ ReturnJoin
    \/ ReturnDone
    \/ AfterCall
    \/ FinishQuery
    \/ BuildDepMap
    \/ PickInvocation
    \/ CheckChild
    \/ EmitAllErrors
    \/ PassReturn
    \/ Exit

Spec == Init /\ [][Next]_vars

\* the scheduler runs the single thread of the analysis until it stops
FairSpec == Spec /\ WF_vars(Next)

(***************************************************************************)
(* GuardState::combine applied on its own to every triple of guard states: *)
(* to a pair, to the pair exchanged, and to the triple bracketed both ways. *)
(***************************************************************************)
GuardStates == {"Returned", "Dropped", "Undetermined"}

CombineInit ==
    /\ prog = NoTargets
    /\ phase = "combine"
    /\ inputs \in [self : GuardStates, other : GuardStates, third : GuardStates]
    /\ outputs = <<>>
    /\ Fresh

Machine == <<Driver, TyMap, PassState, Collector, phase, exitCode, emitted>>

\* self.combine(other)
CombinePair ==
    /\ Len(outputs) = 0
    /\ outputs' = <<combine(inputs.self, inputs.other)>>
    /\ UNCHANGED <<inputs, Machine>>

\* other.combine(self)
CombineExchanged ==
    /\ Len(outputs) = 1
    /\ outputs' = Append(outputs, combine(inputs.other, inputs.self))
    /\ UNCHANGED <<inputs, Machine>>

\* self.combine(other).combine(third)
CombineLeft ==
    /\ Len(outputs) = 2
    /\ outputs' = Append(outputs, combine(outputs[1], inputs.third))
    /\ UNCHANGED <<inputs, Machine>>

\* self.combine(other.combine(third))
CombineRight ==
    /\ Len(outputs) = 3
    /\ outputs' = Append(outputs, combine(inputs.self,
                                           combine(inputs.other, inputs.third)))
    /\ UNCHANGED <<inputs, Machine>>

CombineNext ==
    \/ CombinePair
    \/ CombineExchanged
    \/ CombineLeft
    \/ CombineRight

CombineSpec == CombineInit /\ [][CombineNext]_vars

(***************************************************************************)
(* run_passes on its own: the statuses the passes return are drawn from    *)
(* every sequence of at most MaxPasses results and joined in order, then   *)
(* joined once more from the last pass back to the first.                  *)
(***************************************************************************)
MaxPasses == 4
ErrorStatus == {"Ok", "DeadlockDetected"}
PassResults == UNION {[1..n -> ErrorStatus] : n \in 0..MaxPasses}

JoinInit ==
    /\ prog = NoTargets
    /\ phase = "run_passes"
    /\ inputs \in PassResults
    /\ outputs = <<>>
    /\ Fresh

\* run_passes: status = status | pass.run_pass(), the pass returning inputs[passIdx]
JoinPass ==
    /\ phase = "run_passes"
    /\ passIdx <= Len(inputs)
    /\ passResult' = inputs[passIdx]
    /\ status' = BitOr(status, inputs[passIdx])
    /\ passIdx' = passIdx + 1
    /\ UNCHANGED <<Unit, prog, phase, exitCode, TyMap, PassState, Collector, emitted>>

\* run_passes: the loop is over, status is returned
JoinReturn ==
    /\ phase = "run_passes"
    /\ passIdx > Len(inputs)
    /\ outputs' = <<status>>
    /\ phase' = "joined"
    /\ UNCHANGED <<inputs, Driver, exitCode, TyMap, PassState, Collector, emitted>>

\* r1 | (r2 | (.. | (rn | Ok))) for the results from index i on
RECURSIVE JoinFromRight(_, _)
JoinFromRight(results, i) ==
    IF i > Len(results) THEN "Ok" ELSE BitOr(results[i], JoinFromRight(results, i + 1))

\* the same results joined with the brackets to the right
JoinBack ==
    /\ phase = "joined"
    /\ Len(outputs) = 1
    /\ outputs' = Append(outputs, JoinFromRight(inputs, 1))
    /\ UNCHANGED <<inputs, Machine>>

JoinNext ==
    \/ JoinPass
    \/ JoinReturn
    \/ JoinBack

JoinSpec == JoinInit /\ [][JoinNext]_vars

(***************************************************************************)
(* calculate_new_local_after_statement applied on its own to every         *)
(* statement over MaxLocal locals and every slot of the guard.             *)
(***************************************************************************)
MaxLocal == 3
Locals == 1..MaxLocal
Operands == {Move(l) : l \in Locals} \cup {Copy(l) : l \in Locals} \cup {Const}
Statements ==
    {AssignUse(l, a) : l \in Locals, a \in Operands}
    \cup {AssignAggregate(l, <<a, b>>) : l \in Locals, a \in Operands, b \in Operands}
    \cup {AssignRef(l, src) : l \in Locals, src \in Locals}
    \cup {AssignOther(l) : l \in Locals}
    \cup {Deinit(l) : l \in Locals}
    \cup {StorageLive(l) : l \in Locals}
    \cup {StorageDead(l) : l \in Locals}

TransferInit ==
    /\ prog = NoTargets
    /\ phase = "transfer"
    /\ inputs \in [statement : Statements, current_local : Locals]
    /\ outputs = <<>>
    /\ Fresh

\* current_local = calculate_new_local_after_statement(statement, current_local)
Transfer ==
    /\ phase = "transfer"
    /\ outputs = <<>>
    /\ outputs' = <<calculate_new_local_after_statement(inputs.statement,
                                                        inputs.current_local)>>
    /\ UNCHANGED <<inputs, Machine>>

TransferNext == Transfer

TransferSpec == TransferInit /\ [][TransferNext]_vars

(***************************************************************************)
(* The two criteria of run_pass for reporting an edge, the earlier one     *)
(* (the child's dependancies contain the class of the invocation) and the  *)
(* current one (dependancies_contain), applied on their own to every       *)
(* dependant map over at most MaxClasses lock classes and every pair of a  *)
(* class and a class acquired under it.  The keys of a dependant map are   *)
(* the classes with an invocation, and the class of a child of an          *)
(* invocation is among the dependancies of the invocation's class          *)
(* (get_dependant_map).  A LockClass is a number the pass only compares    *)
(* and hashes, so the class of the invocation is taken to be class 0 and   *)
(* the class of the child class 0 or class 1.                              *)
(***************************************************************************)
MaxClasses == 3
LockClasses == 0..(MaxClasses - 1)
DependantMaps == UNION {[S -> SUBSET S] : S \in (SUBSET LockClasses) \ {{}}}

\* the earlier run_pass: child_dependancies = &dependant_map[&child_invocation.class];
\* child_dependancies.contains(&invocation.class)
child_dependancies_contain(invocation_class, child_class, dm) ==
    IF child_class \notin DOMAIN dm THEN "panic"
    ELSE IF invocation_class \in dm[child_class] THEN "true" ELSE "false"

DetectInit ==
    /\ prog = NoTargets
    /\ phase = "detect"
    /\ \E dm \in DependantMaps : \E invocation_class \in DOMAIN dm \cap {0} :
       \E child_class \in dm[invocation_class] \cap {0, 1} :
           inputs = [dependant_map |-> dm, invocation_class |-> invocation_class,
                     child_class |-> child_class]
    /\ outputs = <<>>
    /\ Fresh

\* run_pass, the body of the inner loop: dependancies_contain from an empty set of
\* visited classes
DetectCurrent ==
    /\ phase = "detect"
    /\ outputs = <<>>
    /\ \E o \in dependancies_contain(inputs.invocation_class, inputs.child_class,
                                     inputs.dependant_map, {}) :
           outputs' = <<o.result>>
    /\ UNCHANGED <<inputs, Machine>>

\* the earlier run_pass, the body of the inner loop
DetectEarlier ==
    /\ phase = "detect"
    /\ Len(outputs) = 1
    /\ outputs' = Append(outputs,
                         child_dependancies_contain(inputs.invocation_class,
                                                    inputs.child_class,
                                                    inputs.dependant_map))
    /\ UNCHANGED <<inputs, Machine>>

DetectNext == DetectCurrent \/ DetectEarlier

DetectSpec == DetectInit /\ [][DetectNext]_vars

(***************************************************************************)
(* Properties.                                                             *)
(***************************************************************************)
Children(I) == invocations[I].child_invocations
Class(I) == invocations[I].class
Diagnostics == {emitted[i] : i \in 1..Len(emitted)}
PassDone == phase = "returned"

\* the pair (I, J), J a child of I, has been put to the cycle detector
Examined(I, J) ==
    /\ phase \in {"cycles", "returned", "idle", "exit"}
    /\ I \in DOMAIN invocations
    /\ I \notin pendingInv
    /\ J \in Children(I)
    /\ ~(I = curInv /\ J \in pendChildren)

\* C1: for every recorded invocation I and every child J of I the cycle detector
\* reports the edge (I, J) exactly when class(I) is reachable from class(J) by a
\* directed path of length >= 1 in the dependant map (a self-loop included).
C1_DetectorIsReachability ==
    \A I \in DOMAIN invocations : \A J \in Children(I) :
        Examined(I, J) =>
            (<<I, J>> \in reported <=> Class(I) \in ReachableFrom(dependant_map, Class(J)))

\* an edge was reported over an indirect path, and the detector has answered them all
C1_Witness ==
    /\ PassDone
    /\ \E I \in DOMAIN invocations : \E J \in Children(I) :
          /\ <<I, J>> \in reported
          /\ Class(I) \notin dependant_map[Class(J)]

\* the diagnostic of function e_k of a lock-order program: Y acquired while holding X
EdgeDiag(p) ==
    [parent_ty |-> LockTypes[p[1]], child_ty |-> LockTypes[p[2]],
     parent_span |-> 10 * PairIndex(p), child_span |-> 10 * PairIndex(p) + 1]
EdgesOf(crate) == CHOOSE E \in EdgeSets : EdgeCrate(E) = crate
Diag(parent_ty, parent_span, child_ty, child_span) ==
    [parent_ty |-> parent_ty, child_ty |-> child_ty,
     parent_span |-> parent_span, child_span |-> child_span]

SameClassTwice == {EdgeCrate({<<x, x>>}) : x \in 1..Len(LockTypes)}

\* C2: a function that acquires class X and acquires class X again while the first
\* guard is live: the pass returns DeadlockDetected with exactly one diagnostic, its
\* parent the first acquisition, its child the second, both of class X.
C2_SameClassTwice ==
    /\ (prog = Deadlock1 /\ PassDone) =>
          /\ passResult = "DeadlockDetected"
          /\ emitted = <<Diag("Deadlock1", 16, "Deadlock1", 17)>>
          /\ Children(Bbid("deadlock1", 1)) = {Bbid("deadlock1", 2)}
          /\ Class(Bbid("deadlock1", 1)) = Class(Bbid("deadlock1", 2))
    /\ (prog \in SameClassTwice /\ PassDone) =>
          /\ passResult = "DeadlockDetected"
          /\ emitted = <<EdgeDiag(CHOOSE p \in EdgesOf(prog) : TRUE)>>
          /\ \A I, J \in DOMAIN invocations : Class(I) = Class(J)

C2_Witness ==
    /\ prog = Deadlock1
    /\ phase = "exit"
    /\ exitCode = 1
    /\ Len(emitted) = 1

OppositeOrders ==
    {EdgeCrate({<<x, y>>, <<y, x>>}) : x \in 1..Len(LockTypes), y \in 1..Len(LockTypes)}
    \ SameClassTwice

\* C3: classes A and B, one function acquiring B while holding A and another acquiring
\* A while holding B, nothing else acquired: the pass returns DeadlockDetected with
\* exactly two diagnostics, one whose child is the B acquisition made under A and one
\* whose child is the A acquisition made under B.
C3_OppositeOrders ==
    /\ (prog = Deadlock5 /\ PassDone) =>
          /\ passResult = "DeadlockDetected"
          /\ emitted = <<Diag("Deadlock5a", 83, "Deadlock5b", 84),
                         Diag("Deadlock5b", 86, "Deadlock5a", 87)>>
    /\ (prog \in OppositeOrders /\ PassDone) =>
          /\ passResult = "DeadlockDetected"
          /\ Len(emitted) = 2
          /\ Diagnostics = {EdgeDiag(p) : p \in EdgesOf(prog)}

C3_Witness ==
    /\ prog \in OppositeOrders
    /\ phase = "exit"
    /\ exitCode = 1
    /\ Len(emitted) = 2
    /\ emitted[1].parent_ty = emitted[2].child_ty
    /\ emitted[1].parent_ty # emitted[1].child_ty

ThreeCycles ==
    {EdgeCrate(E) : E \in {F \in EdgeSets :
        \E x, y, z \in 1..Len(LockTypes) :
            /\ Cardinality({x, y, z}) = 3
            /\ F = {<<x, y>>, <<y, z>>, <<z, x>>}}}

NoDirectBackEdge ==
    \A c \in DOMAIN dependant_map : \A d \in dependant_map[c] : c \notin dependant_map[d]

\* C4: classes A, B, C acquired in three functions as A-then-B, B-then-C, C-then-A:
\* a deadlock is reported on each of the three edges, although no class is a direct
\* dependancy of the class of its own child.
C4_ThreeCycle ==
    /\ (prog = Deadlock16 /\ PassDone) =>
          /\ passResult = "DeadlockDetected"
          /\ NoDirectBackEdge
          /\ emitted = <<Diag("Deadlock16a", 270, "Deadlock16b", 271),
                         Diag("Deadlock16b", 277, "Deadlock16c", 278),
                         Diag("Deadlock16c", 284, "Deadlock16a", 285)>>
    /\ (prog \in ThreeCycles /\ PassDone) =>
          /\ passResult = "DeadlockDetected"
          /\ NoDirectBackEdge
          /\ Len(emitted) = 3
          /\ Diagnostics = {EdgeDiag(p) : p \in EdgesOf(prog)}

C4_Witness ==
    /\ prog = Deadlock16
    /\ phase = "exit"
    /\ exitCode = 1
    /\ Len(emitted) = 3
    /\ NoDirectBackEdge

\* collect has returned for the invocation curInv, its children are about to be assigned
QueryDone == phase = "flow" /\ curInv # NoBbid /\ stack = <<>> /\ ret # "none"

TerminatorOf(bbid) == BlockData(prog.bodies[bbid.def_id], bbid.basic_block).terminator
\* the slot of the guard at the terminator of a walked block
LocalAtTerminator(pair) ==
    FoldStatements(BlockData(prog.bodies[pair.block.def_id],
                             pair.block.basic_block).statements,
                   [panic |-> FALSE, local |-> pair.local]).local
Walked(bbid, local) == [block |-> bbid, local |-> local] \in visited_blocks
DiagnosedAt(span) == \E i \in 1..Len(emitted) : emitted[i].child_span = span

HandOverCase(crate, first, later, slot) ==
    [crate |-> crate, first |-> first, later |-> later, slot |-> slot]

\* the guard of `first` is moved into a callee that drops it on every path; `later`
\* is acquired after the call
DroppingCallees ==
    {HandOverCase(Okay2, Bbid("okay2", 1), Bbid("okay2", 3), 6),
     HandOverCase(Seed7, Bbid("caller", 1), Bbid("caller", 3), 5),
     HandOverCase(DropIf, Bbid("caller", 1), Bbid("caller", 3), 5)}

\* C5: the live guard moved as an argument into a resolvable callee that drops it on
\* every path: the walk of the caller stops with Dropped at that call, acquisitions
\* that occur only after the call are not children of the invocation, and with
\* nothing else acquired under it the result is Ok.
C5_MovedIntoDroppingCallee ==
    \A h \in DroppingCallees :
        prog = h.crate =>
            /\ (QueryDone /\ curInv = h.first) =>
                  (ret = "Dropped" /\ h.later \notin dependant_classes)
            /\ PassDone =>
                  (Children(h.first) = {} /\ passResult = "Ok" /\ emitted = <<>>)

\* the guard of `first` is moved into a callee that returns it; `later` is acquired
\* after the call(s), the guard then being in `slot`
ReturningCallees ==
    {HandOverCase(Seed6, Bbid("caller", 1), Bbid("caller", 3), 3),
     HandOverCase(ReturnIf, Bbid("caller", 1), Bbid("caller", 3), 3),
     HandOverCase(ReturnMatch, Bbid("caller", 1), Bbid("caller", 3), 3),
     HandOverCase(ReturnTwice, Bbid("caller", 1), Bbid("caller", 4), 5)}

\* C6: the live guard moved as an argument into a resolvable callee that returns it:
\* the walk continues in the caller after the call with the guard in the destination
\* slot of the call, so a later acquisition of the same class in the caller is
\* recorded as a child and DeadlockDetected is reported.
C6_MovedIntoReturningCallee ==
    \A h \in ReturningCallees :
        prog = h.crate =>
            /\ (QueryDone /\ curInv = h.first) =>
                  (Walked(h.later, h.slot) /\ h.later \in dependant_classes)
            /\ PassDone =>
                  /\ h.later \in Children(h.first)
                  /\ Class(h.later) = Class(h.first)
                  /\ passResult = "DeadlockDetected"
                  /\ DiagnosedAt(invocations[h.later].span)

Range(seq) == {seq[i] : i \in 1..Len(seq)}

\* every target of a walked SwitchInt is walked with the slot the guard is in, and
\* every walked block that is a recorded invocation is among the children collected
BranchesWalked ==
    \A pair \in visited_blocks :
        /\ pair.block \in DOMAIN invocations => pair.block \in dependant_classes
        /\ TerminatorOf(pair.block).kind = "SwitchInt" =>
              \A b \in Range(TerminatorOf(pair.block).targets)
                       \cup {TerminatorOf(pair.block).target} :
                  Walked(with_basic_block(pair.block, b), LocalAtTerminator(pair))

\* outer acquisition, inner acquisition in a branch, both of one class
Conditionals ==
    {HandOverCase(Deadlock3, Bbid("deadlock3", 1), Bbid("deadlock3", 3), 2),
     HandOverCase(Deadlock3Match, Bbid("deadlock3", 1), Bbid("deadlock3", 3), 2),
     HandOverCase(Deadlock4, Bbid("deadlock4", 1), Bbid("deadlock4", 5), 2)}

\* C7: an acquisition in any branch of a conditional (a non-otherwise SwitchInt
\* target or the otherwise target, nested conditionals included) reachable while the
\* outer guard is live is recorded as a child of the outer invocation, and a
\* same-class inner acquisition is reported as a deadlock on the inner acquisition.
C7_BranchAcquisitions ==
    /\ QueryDone => BranchesWalked
    /\ \A h \in Conditionals :
          (prog = h.crate /\ PassDone) =>
              /\ h.later \in Children(h.first)
              /\ passResult = "DeadlockDetected"
              /\ emitted = <<DeadlockError(invocations[h.first], invocations[h.later])>>

\* an inner acquisition behind a non-otherwise target and one behind an otherwise
\* target of a nested conditional have been reported
C7_Witness ==
    /\ prog = Deadlock4
    /\ phase = "exit"
    /\ exitCode = 1
    /\ Bbid("deadlock4", 5) \in Children(Bbid("deadlock4", 1))
    /\ DiagnosedAt(55)

\* the functions called from fn through resolvable calls whose bodies are available
Callees(fn) ==
    IF ~HasMir(fn) THEN {}
    ELSE {get_fn_def_id_from_terminator(BlockData(prog.bodies[fn], b).terminator) :
             b \in Range(reachable(prog.bodies[fn]))} \ {NoFn}
RECURSIVE CallClosure(_)
CallClosure(S) ==
    LET n == S \cup UNION {Callees(fn) : fn \in S} IN IF n = S THEN S ELSE CallClosure(n)
InvocationsUnder(F) == {bbid \in DOMAIN invocations : bbid.def_id \in CallClosure({F})}

\* the walk passed a call of a resolvable function the guard is not handed to
CallsWithGuardKept ==
    {pair \in visited_blocks :
        /\ TerminatorOf(pair.block).kind = "Call"
        /\ TerminatorOf(pair.block).func # NoFn
        /\ TerminatorOf(pair.block).local # LocalAtTerminator(pair)
        /\ FirstUse(TerminatorOf(pair.block).args, LocalAtTerminator(pair)) = 0}

\* C8: a resolvable function F called while the guard is live and not passed to it:
\* every recorded invocation in a reachable block of F, and of every function
\* transitively called from F through resolvable calls whose bodies are available,
\* is added to the children of the invocation being analysed.
C8_SweepCoversCallees ==
    QueryDone =>
        \A pair \in CallsWithGuardKept :
            InvocationsUnder(TerminatorOf(pair.block).func) \subseteq dependant_classes

SelfCalls ==
    {HandOverCase(Deadlock15, Bbid("deadlock15", 0), Bbid("deadlock15", 0), 260),
     HandOverCase(Deadlock15Mutual, Bbid("f", 0), Bbid("f", 0), 260),
     HandOverCase(Deadlock14, Bbid("deadlock14::inner", 0), Bbid("deadlock14::inner", 0), 242)}

\* C9: a function that acquires a lock and, while the guard is live, calls itself
\* (directly or through a chain of resolvable calls) makes the invocation a child of
\* itself, so a self-cycle on the class of the lock is reported.
C9_SelfCall ==
    \A h \in SelfCalls :
        (prog = h.crate /\ PassDone) =>
            /\ h.first \in Children(h.first)
            /\ <<h.first, h.first>> \in reported
            /\ passResult = "DeadlockDetected"
            /\ emitted = <<DeadlockError(invocations[h.first], invocations[h.first])>>

\* the self-cycle found through the chain f -> g -> f
C9_Witness ==
    /\ prog = Deadlock15Mutual
    /\ phase = "exit"
    /\ exitCode = 1
    /\ Bbid("f", 0) \in Children(Bbid("f", 0))
    /\ DiagnosedAt(260)

LoopPrograms == {Okay7, Okay8, Okay15}

\* C10: a lock acquired in a loop body whose guard is dropped on every path before
\* control is back at the acquisition is not a child of itself; a program that is
\* only such a loop (the acquisitions in separate if/else branches of the body
\* included) yields Ok, and the walk terminates.
C10_LoopWithDrop ==
    /\ [](prog \in LoopPrograms =>
            /\ QueryDone => curInv \notin dependant_classes
            /\ PassDone =>
                  /\ \A I \in DOMAIN invocations : I \notin Children(I)
                  /\ passResult = "Ok"
                  /\ emitted = <<>>)
    /\ (prog \in LoopPrograms) ~> (phase = "exit" /\ exitCode = 0)

\* the loop with the acquisitions in the two branches of its body has been analysed
C10_Witness ==
    /\ prog = Okay8
    /\ phase = "exit"
    /\ exitCode = 0
    /\ Cardinality(DOMAIN invocations) = 2
    /\ \A I \in DOMAIN invocations : Children(I) = {}
    /\ \E b \in 1..Len(prog.bodies["okay8"].blocks) :
          BlockData(prog.bodies["okay8"], b - 1).terminator.kind = "SwitchInt"

\* every recorded return location of a function is the continuation of a reachable
\* call of that function, its slot the destination of the call
ReturnLocationsAreContinuations ==
    \A fn \in DOMAIN return_map : \A return_location \in return_map[fn] :
        \E b \in Range(reachable(prog.bodies[return_location.return_bbid.def_id])) :
            \E t \in {BlockData(prog.bodies[return_location.return_bbid.def_id],
                                b).terminator} :
                /\ t.kind = "Call"
                /\ t.func = fn
                /\ t.target = return_location.return_bbid.basic_block
                /\ t.local = return_location.return_local

\* the walk of a Return that examines returns ends with every recorded return
\* location of the function walked in the slot recorded for it
ForwardReturnWalksAll ==
    ReturnDone =>
        \A return_location \in return_map[Top.def_id] :
            Walked(return_location.return_bbid, return_location.return_local)

\* C11: the function of the acquisition returns the guard (the walk reaches Return
\* with the guard in slot 0 while examining returns): the walk continues at every
\* recorded call-site continuation of that function with the guard in the
\* destination slot of that call, the states combined; what a caller acquires while
\* it holds the returned guard is a child of the invocation.
C11_ForwardReturn ==
    /\ []ReturnLocationsAreContinuations
    /\ [][ForwardReturnWalksAll]_vars
    /\ [](prog = ReturnedToCallers =>
            /\ (QueryDone /\ curInv = Bbid("get", 0)) =>
                  /\ Walked(Bbid("a", 1), 1)
                  /\ Walked(Bbid("b", 1), 4)
                  /\ dependant_classes = {Bbid("a", 1), Bbid("b", 1)}
                  /\ ret = "Dropped"
            /\ PassDone => Children(Bbid("get", 0)) = {Bbid("a", 1), Bbid("b", 1)})
    /\ [](prog = Deadlock14 /\ PassDone =>
            Bbid("deadlock14::inner", 0) \in Children(Bbid("deadlock14::inner", 0)))

\* the guard went back to both callers of get, and each caller's acquisition is a child
C11_Witness ==
    /\ prog = ReturnedToCallers
    /\ PassDone
    /\ Cardinality(return_map["get"]) = 2
    /\ Children(Bbid("get", 0)) = {Bbid("a", 1), Bbid("b", 1)}

\* C12: in every state of a pass, for every recorded invocation I, every block in
\* the children of I is a key of the invocation map of the pass (and so is every
\* block the running query has collected).
C12_ChildrenAreInvocations ==
    /\ \A I \in DOMAIN invocations : Children(I) \subseteq DOMAIN invocations
    /\ dependant_classes \subseteq DOMAIN invocations

\* children found by the walk and by the sweep of a callee have been assigned
C12_Witness ==
    /\ prog = Deadlock13
    /\ phase = "cycles"
    /\ \E I, J \in DOMAIN invocations : I.def_id # J.def_id /\ J \in Children(I)
    /\ \E I, J \in DOMAIN invocations : I.def_id = J.def_id /\ J \in Children(I)

\* the child spans of the edges the cycle detector reported in this pass
ReportedChildSpans == {invocations[e[2]].span : e \in reported}

\* what emit_all_errors emits: ascending in child_span without repetition, one
\* diagnostic for each child span among the reported edges
EmittedInSpanOrder ==
    EmitAllErrors =>
        \E d \in {SubSeq(emitted', Len(emitted) + 1, Len(emitted'))} :
            /\ \A i, j \in 1..Len(d) : i < j => d[i].child_span < d[j].child_span
            /\ {d[i].child_span : i \in 1..Len(d)} = ReportedChildSpans
            /\ Len(d) = Cardinality(ReportedChildSpans)

\* C13: the diagnostics of a pass are emitted in ascending order of child_span and
\* no two of them have the same child_span: exactly one diagnostic is emitted per
\* distinct child span among the reported edges.
C13_OrderedAndDeduplicated == [][EmittedInSpanOrder]_vars

\* five reported edges with two distinct child spans gave two diagnostics
C13_Witness ==
    /\ prog = SharedChild
    /\ PassDone
    /\ Cardinality(reported) = 5
    /\ Len(emitted) = 2
    /\ emitted[1].child_span = 5
    /\ emitted[2].child_span = 6

\* the (parent span, child span) pairs of the edges the cycle detector reported
ReportedSpanPairs == {<<invocations[e[1]].span, invocations[e[2]].span>> : e \in reported}

\* C14: one diagnostic is emitted for each distinct (parent span, child span) pair
\* whose edge participates in a cycle; two parent invocations with the same child,
\* both edges on cycles, give two diagnostics.
C14_OnePerSpanPair ==
    PassDone =>
        /\ {<<e.parent_span, e.child_span>> : e \in errors} = ReportedSpanPairs
        /\ Cardinality(errors) = Cardinality(ReportedSpanPairs)
        /\ Len(emitted) >= Cardinality(ReportedSpanPairs)

\* a top-level query (one call of collect) is running
InQuery == phase = "flow" /\ curInv # NoBbid

\* within one query visited_blocks and visited_functions only grow
VisitedOnlyGrow ==
    curInv' = curInv =>
        /\ visited_blocks \subseteq visited_blocks'
        /\ visited_functions \subseteq visited_functions'

\* a (bbid, local) pair is processed when it is not yet in visited_blocks, and then
\* it is entered; a pair that is in it ends the activation with nothing changed
ProcessedOnce ==
    WalkBlock =>
        \E pair \in {[block |-> Bbid(Top.def_id, Top.basic_block),
                      local |-> Top.current_local]} :
            IF pair \in visited_blocks
            THEN /\ stack' = Pop
                 /\ ret' = "Undetermined"
                 /\ visited_blocks' = visited_blocks
                 /\ dependant_classes' = dependant_classes
                 /\ visited_functions' = visited_functions
            ELSE HasMir(Top.def_id) => visited_blocks' = visited_blocks \cup {pair}

\* a function that has been swept is not swept again in the query
SweptOnce ==
    \A fn_def_id \in visited_functions :
        \E c \in {[dependant_classes |-> dependant_classes,
                   visited_functions |-> visited_functions]} :
            collect_all_invocations(fn_def_id, c) = c

\* C15: every top-level guard-flow query ends on any finite program (CFG loops,
\* recursive and mutually recursive functions, functions that return the guard to
\* their callers): collect returns, unless the process aborts in a panic;
\* visited_blocks and visited_functions only grow, each (bbid, local) pair is
\* processed at most once and each function is swept at most once per query.
C15_QueryTerminates ==
    /\ [][VisitedOnlyGrow /\ ProcessedOnce]_vars
    /\ []SweptOnce
    /\ InQuery ~> (QueryDone \/ phase = "panicked")

\* the query of a guard held over an endless loop has returned
C15_Witness ==
    /\ prog = LoopHolding
    /\ QueryDone
    /\ curInv = Bbid("spin", 1)
    /\ Walked(Bbid("spin", 2), 2)
    /\ ret = "Undetermined"

\* the guard in slot pair.local at the entry of block pair.block of F: where it is
\* at the entry of each successor the guard can reach within F
GuardSuccessors(F, pair) ==
    LET data == BlockData(prog.bodies[F], pair.block)
        folded == FoldStatements(data.statements, [panic |-> FALSE, local |-> pair.local])
        t == data.terminator
        To(blocks) == {[block |-> b, local |-> folded.local] : b \in blocks}
    IN  IF folded.panic THEN {}
        ELSE CASE t.kind \in {"Goto", "Assert"} -> To({t.target})
               [] t.kind = "SwitchInt" -> To(Range(t.targets) \cup {t.target})
               [] t.kind = "Drop" /\ t.local # folded.local -> To({t.target})
               [] t.kind = "Call" /\ t.local # folded.local /\ t.target # NoBlock
                  /\ FirstUse(t.args, folded.local) = 0 -> To({t.target})
               [] OTHER -> {}
RECURSIVE GuardClosure(_, _)
GuardClosure(F, S) ==
    LET n == S \cup UNION {GuardSuccessors(F, pair) : pair \in S}
    IN  IF n = S THEN S ELSE GuardClosure(F, n)

\* some CFG path of F from its entry, the guard in slot arg, reaches Return with the
\* guard in slot 0
MayReturn(F, arg) ==
    /\ HasMir(F)
    /\ \E pair \in GuardClosure(F, {[block |-> START_BLOCK, local |-> arg]}) :
          /\ BlockData(prog.bodies[F], pair.block).terminator.kind = "Return"
          /\ FoldStatements(BlockData(prog.bodies[F], pair.block).statements,
                            [panic |-> FALSE, local |-> pair.local]).local = RETURN_PLACE

\* the callee the guard was handed to has answered the activation on top
CalleeAnswered == phase = "flow" /\ stack # <<>> /\ Top.pc = "call" /\ ret # "none"

\* C16: the guard handed to a resolvable callee F of which at least one CFG path from
\* the entry reaches Return with the guard in slot 0: the state computed for F is
\* Returned, whatever the other paths of F do.
C16_MightReturnIsReturned ==
    CalleeAnswered =>
        \E t \in {TerminatorOf(Bbid(Top.def_id, Top.basic_block))} :
            MayReturn(t.func, FirstUse(t.args, Top.current_local)) => ret = "Returned"

\* the place of a guard state on the chain Undetermined < Dropped < Returned
Rank(state) ==
    CASE state = "Undetermined" -> 0 [] state = "Dropped" -> 1 [] state = "Returned" -> 2
Greater(a, b) == IF Rank(a) >= Rank(b) THEN a ELSE b

\* C17: GuardState::combine is a join on the chain Undetermined < Dropped < Returned:
\* commutative, associative and idempotent, Undetermined its identity, Returned
\* absorbing, and combine(a, b) the greater of a and b for all nine pairs.
C17_CombineIsJoin ==
    /\ Len(outputs) >= 1 =>
          /\ outputs[1] = Greater(inputs.self, inputs.other)
          /\ inputs.self = inputs.other => outputs[1] = inputs.self
          /\ inputs.other = "Undetermined" => outputs[1] = inputs.self
          /\ inputs.self = "Undetermined" => outputs[1] = inputs.other
          /\ "Returned" \in {inputs.self, inputs.other} => outputs[1] = "Returned"
    /\ Len(outputs) >= 2 => outputs[2] = outputs[1]
    /\ Len(outputs) >= 4 => outputs[3] = outputs[4]

\* combine has been applied to (Dropped, Returned, Undetermined) in all four ways
C17_Witness ==
    /\ phase = "combine"
    /\ inputs = [self |-> "Dropped", other |-> "Returned", third |-> "Undetermined"]
    /\ outputs = <<"Returned", "Returned", "Returned", "Returned">>

\* the errors of the run whose loops visit the invocations and the children of each
\* in ascending order of span: the reported edges inserted in that order
RECURSIVE InsertInSpanOrder(_, _)
InsertInSpanOrder(edges, errs) ==
    IF edges = {} THEN errs
    ELSE LET Before(a, b) ==
                 \/ invocations[a[1]].span < invocations[b[1]].span
                 \/ /\ invocations[a[1]].span = invocations[b[1]].span
                    /\ invocations[a[2]].span <= invocations[b[2]].span
             first == CHOOSE e \in edges : \A o \in edges : Before(e, o)
         IN  InsertInSpanOrder(edges \ {first},
                               emit_deadlock_error(errs, invocations[first[1]],
                                                   invocations[first[2]]))

\* C18: running the analysis twice on the same input yields the same set of
\* diagnostics (child spans, parent spans, type names), whatever the iteration
\* order of the invocation map and of the children sets and whatever lock class
\* ids were allocated: every run of a pass ends with the diagnostics of the run
\* that iterates in ascending order of span.
C18_SameDiagnosticsEveryRun ==
    PassDone =>
        /\ errors = InsertInSpanOrder(reported, {})
        /\ \A e \in errors : \E i \in 1..Len(emitted) : emitted[i] = e

\* the innermost activation stands, in forward mode, at a Return with the guard in the
\* return place, in a function with no recorded return location
AtUnrecordedReturn ==
    /\ stack # <<>>
    /\ Top.pc = "block"
    /\ Top.examine_returns
    /\ HasMir(Top.def_id)
    /\ TerminatorOf(Bbid(Top.def_id, Top.basic_block)).kind = "Return"
    /\ LocalAtTerminator([block |-> Bbid(Top.def_id, Top.basic_block),
                          local |-> Top.current_local]) = RETURN_PLACE
    /\ Top.def_id \notin DOMAIN return_map

\* C19: a forward walk that reaches Return with the guard in slot 0, in a function with
\* no recorded return locations, does not abort the analysis: it walks no return
\* location and the query goes on to its end
C19_UnrecordedReturnIsSilent == AtUnrecordedReturn => phase # "panicked"

\* the process has ended: main returned or exited, or a panic unwound it
ProcessEnded == phase \in {"exit", "panicked"}

C21_StatusJoin ==
    /\ \A a, b, c \in ErrorStatus :
          /\ BitOr(a, b) = BitOr(b, a)
          /\ BitOr(BitOr(a, b), c) = BitOr(a, BitOr(b, c))
          /\ BitOr(a, "Ok") = a /\ BitOr("Ok", a) = a
          /\ BitOr(a, "DeadlockDetected") = "DeadlockDetected"
          /\ BitOr(a, b) \in ErrorStatus
    /\ status = "DeadlockDetected" <=>
          \E i \in 1..(passIdx - 1) : inputs[i] = "DeadlockDetected"
    /\ Len(outputs) >= 1 =>
          /\ passIdx = Len(inputs) + 1
          /\ outputs[1] = "DeadlockDetected" <=>
                \E i \in 1..Len(inputs) : inputs[i] = "DeadlockDetected"
          /\ inputs = <<>> => outputs[1] = "Ok"
    /\ Len(outputs) >= 2 => outputs[2] = outputs[1]

\* a pass that found a deadlock followed by two that found none
C21_Witness ==
    /\ inputs = <<"DeadlockDetected", "Ok", "Ok">>
    /\ phase = "joined"
    /\ passResult = "Ok"
    /\ outputs = <<"DeadlockDetected", "DeadlockDetected">>

\* a pass is running or has just returned: the maps are those of the current pass
InPass == phase \in {"collect", "flow", "cycles", "returned"}

\* the LockClassTyMap of the current pass with the process-wide counter
CurrentTyMap ==
    [class_to_ty |-> class_to_ty, ty_to_class |-> ty_to_class, next |-> NEXT_LOCK_CLASS]

\* the data type locked by the invocation at bbid, read off the program
LockedTy(bbid) ==
    LET args == TerminatorOf(bbid).args
        locks == {i \in 1..Len(args) : peel_refs(args[i].ty).adt = pass_target.lock}
        first == CHOOSE i \in locks : \A j \in locks : i <= j
    IN  peel_refs(args[first].ty).generics[1]

\* types put to get_lock_class beyond those the pass has seen
ProbeTypes == {"A", "B", "C", "u8", "usize", "String"}

\* C22: within a pass get_lock_class gives equal ids to equal types and different ids
\* to different types; a call on a known type allocates nothing and changes neither
\* map; get_ty(get_lock_class(t)) = t for every type seen, class_to_ty and ty_to_class
\* staying inverse to each other.
C22_LockClassFunction ==
    /\ \A t \in DOMAIN ty_to_class :
          /\ ty_to_class[t] \in DOMAIN class_to_ty
          /\ get_ty(ty_to_class[t]) = t
          /\ get_lock_class(CurrentTyMap, t) = [class |-> ty_to_class[t], map |-> CurrentTyMap]
    /\ \A c \in DOMAIN class_to_ty :
          /\ class_to_ty[c] \in DOMAIN ty_to_class
          /\ ty_to_class[class_to_ty[c]] = c
    /\ \A t \in ProbeTypes \ DOMAIN ty_to_class :
          LET r == get_lock_class(CurrentTyMap, t)
          IN  /\ r.class \notin DOMAIN class_to_ty
              /\ r.map.class_to_ty[r.class] = t
              /\ r.map.ty_to_class[t] = r.class
              /\ \A u \in DOMAIN ty_to_class : r.map.ty_to_class[u] = ty_to_class[u]
              /\ get_lock_class(r.map, t) = [class |-> r.class, map |-> r.map]
    /\ InPass =>
          \A I, J \in DOMAIN invocations :
              /\ get_ty(Class(I)) = LockedTy(I)
              /\ Class(I) = Class(J) <=> LockedTy(I) = LockedTy(J)

\* a pass has interned two types, two invocations sharing one and a third on the other
C22_Witness ==
    /\ phase = "flow"
    /\ Cardinality(DOMAIN class_to_ty) >= 2
    /\ \E I, J, K \in DOMAIN invocations :
          /\ I # J
          /\ Class(I) = Class(J)
          /\ Class(I) # Class(K)

\* the classes a step hands out: those of the map after it that the map before it
\* did not hold
HandedOut == DOMAIN class_to_ty' \ DOMAIN class_to_ty

\* a step never lowers the counter, and the classes it hands out are exactly the
\* values the counter passed over
CounterStep ==
    /\ NEXT_LOCK_CLASS' >= NEXT_LOCK_CLASS
    /\ HandedOut = NEXT_LOCK_CLASS..(NEXT_LOCK_CLASS' - 1)
    /\ phase = "idle" /\ phase' = "collect" =>
          NEXT_LOCK_CLASS' = NEXT_LOCK_CLASS /\ class_to_ty' = <<>>

\* C23: lock classes come from one process-wide counter that only increases; every
\* class of the current pass lies below the counter and every class handed out lies at
\* or above the value the counter had, so no id is handed out twice: the second pass of
\* two_targets interns usize, as the first did, under another class.
C23_CounterNeverRecycles ==
    /\ [](\A c \in DOMAIN class_to_ty : c \in 0..(NEXT_LOCK_CLASS - 1))
    /\ [][CounterStep]_vars
    /\ [](prog = TwoTargets /\ InPass /\ "usize" \in DOMAIN ty_to_class =>
             ty_to_class["usize"] = passIdx - 1)

\* the second pass holds usize under class 1, the first pass having used class 0
C23_Witness ==
    /\ prog = TwoTargets
    /\ passIdx = 2
    /\ phase = "flow"
    /\ ty_to_class = ("usize" :> 1)
    /\ NEXT_LOCK_CLASS = 2

\* the functions collect_invocations scans
ScannedFns ==
    {prog.items[i].def_id : i \in {j \in 1..Len(prog.items) :
        prog.items[j].kind = "Fn" /\ prog.items[j].def_id # LOCK_FILLER_FN_NAME}}

\* the reachable blocks of the scanned functions
ScannedBlocks ==
    UNION {{Bbid(f, b) : b \in Range(reachable(prog.bodies[f]))} : f \in ScannedFns}

IsLockSite(bbid) ==
    lock_class_from_terminator(pass_target, TerminatorOf(bbid), CurrentTyMap).some

\* the (callee, return location) pairs of the direct calls that are no lock invocation
ReturnEntries ==
    {<<TerminatorOf(s).func,
       [return_bbid |-> Bbid(s.def_id, TerminatorOf(s).target),
        return_local |-> TerminatorOf(s).local]>> :
        s \in {x \in ScannedBlocks :
                  /\ ~IsLockSite(x)
                  /\ get_fn_def_id_from_terminator(TerminatorOf(x)) # NoFn
                  /\ TerminatorOf(x).target # NoBlock}}

\* both maps hold every entry of every scanned function body
CollectionComplete ==
    /\ scanIdx = Len(prog.items) + 1
    /\ DOMAIN invocations = {s \in ScannedBlocks : IsLockSite(s)}
    /\ DOMAIN return_map = {e[1] : e \in ReturnEntries}
    /\ \A F \in DOMAIN return_map : return_map[F] = {e[2] : e \in {x \in ReturnEntries : x[1] = F}}

\* the guard-flow query of invocation I has returned and its children are assigned
Assigned(I) == phase = "flow" /\ I \notin pendingInv /\ I # curInv

PhaseOrder ==
    {<<"idle", "collect">>, <<"collect", "flow">>, <<"flow", "cycles">>,
     <<"cycles", "returned">>, <<"returned", "idle">>, <<"idle", "exit">>,
     <<"collect", "panicked">>, <<"flow", "panicked">>, <<"cycles", "panicked">>}

\* the order of the steps of a pass
PhaseStep ==
    /\ phase' # phase => <<phase, phase'>> \in PhaseOrder
    /\ stack' # <<>> /\ stack = <<>> => CollectionComplete
    /\ dependant_map' # dependant_map /\ phase # "idle" => phase = "flow"
    /\ phase = "flow" /\ phase' = "cycles" => \A I \in DOMAIN invocations : Assigned(I)
    /\ emitted' # emitted =>
          /\ phase = "cycles"
          /\ \A I \in DOMAIN invocations : \A J \in Children(I) : Examined(I, J)

\* C24: within a pass the invocation map and the return map hold every entry of every
\* scanned body before the first guard-flow walk starts, every invocation has its
\* children assigned before the dependant map is built, and no diagnostic is emitted
\* before the cycle detector has examined every (invocation, child) pair.
C24_PhasesInOrder ==
    /\ [](phase \in {"flow", "cycles", "returned"} => CollectionComplete)
    /\ [](phase \in {"collect", "flow"} => dependant_map = <<>> /\ errors = {})
    /\ [][PhaseStep]_vars

\* deadlock5 after its pass: both maps complete, the map built, two diagnostics emitted
C24_Witness ==
    /\ prog = Deadlock5
    /\ phase = "returned"
    /\ CollectionComplete
    /\ DOMAIN dependant_map # {}
    /\ Cardinality(DOMAIN invocations) >= 4
    /\ Len(emitted) = 2

\* what a step may do to the invocation map and the return map
ChildrenStep ==
    /\ phase = "flow" =>
          /\ return_map' = return_map
          /\ DOMAIN invocations' = DOMAIN invocations
          /\ \A I \in DOMAIN invocations :
                /\ invocations'[I].class = invocations[I].class
                /\ invocations'[I].span = invocations[I].span
                /\ Assigned(I) => invocations'[I] = invocations[I]
                /\ Assigned(I) /\ phase' = "flow" => Assigned(I)'
                /\ invocations'[I] # invocations[I] => I = curInv /\ Assigned(I)'
    /\ phase \in {"cycles", "returned"} =>
          /\ return_map' = return_map
          /\ invocations' = invocations

\* C25: the children set of an invocation is empty after collection and until the
\* guard-flow phase assigns it, which it does once; building the dependant map,
\* detecting cycles and emitting diagnostics leave it as it is; the guard-flow phase
\* changes neither the keys, classes and spans of the invocation map nor the return
\* map.
C25_ChildrenAssignedOnce ==
    /\ [](phase = "collect" => \A I \in DOMAIN invocations : Children(I) = {})
    /\ [](phase = "flow" => \A I \in DOMAIN invocations : Assigned(I) \/ Children(I) = {})
    /\ [][ChildrenStep]_vars

\* deadlock5 after its pass: the two inner acquisitions are the children of the two
\* outer ones, which the cycle detector and the emission have read
C25_Witness ==
    /\ prog = Deadlock5
    /\ phase = "returned"
    /\ Len(emitted) = 2
    /\ Cardinality({I \in DOMAIN invocations : Children(I) # {}}) = 2
    /\ Cardinality({I \in DOMAIN invocations : Children(I) = {}}) = 2

\* some operand copies slot l, no operand before it moving l away
CopiesSlot(operands, l) ==
    \E i \in 1..Len(operands) :
        /\ operands[i].op = "Copy" /\ operands[i].local = l
        /\ \A j \in 1..(i - 1) : ~(operands[j].op = "Move" /\ operands[j].local = l)

\* the statement copies, deinitialises or changes the storage of slot l
StatementMisuses(statement, l) ==
    \/ statement.kind = "Assign" /\ statement.rvalue \in {"Use", "Aggregate"}
          /\ CopiesSlot(statement.operands, l)
    \/ statement.kind \in {"Deinit", "StorageLive", "StorageDead"} /\ statement.local = l

\* the call copies slot l into an argument or writes its result to l
CallMisuses(terminator, l) ==
    terminator.kind = "Call" /\ (terminator.local = l \/ CopiesSlot(terminator.args, l))

\* the block entered with the guard in pair.local misuses the guard's slot: in a
\* statement, the slot followed through the statements before it, or in its call
BlockMisuses(pair) ==
    LET data == BlockData(prog.bodies[pair.block.def_id], pair.block.basic_block)
        At(k) == FoldStatements(SubSeq(data.statements, 1, k),
                                [panic |-> FALSE, local |-> pair.local])
    IN  \/ \E k \in 1..Len(data.statements) :
              ~At(k - 1).panic /\ StatementMisuses(data.statements[k], At(k - 1).local)
        \/ ~At(Len(data.statements)).panic
              /\ CallMisuses(data.terminator, At(Len(data.statements)).local)

\* C26: a copy of the guard's current slot (in a use, an aggregate or a call argument),
\* a call whose destination is the guard's current slot and a deinit, storage-live or
\* storage-dead of it each abort the analysis: the walk goes no further than the
\* block, the pass emits nothing and the tool does not end with status Ok.
C26_GuardMisuseAborts ==
    /\ [](\A pair \in visited_blocks :
             BlockMisuses(pair) =>
                 /\ phase = "panicked"
                 /\ exitCode = 101
                 /\ errors = {} /\ reported = {} /\ passResult = "none"
                 /\ stack # <<>>
                 /\ Bbid(Top.def_id, Top.basic_block) = pair.block)
    /\ [](prog \in MisusePrograms =>
             /\ emitted = <<>>
             /\ phase \notin {"cycles", "returned", "exit"}
             /\ phase = "idle" => passIdx = 1)
    /\ [][phase # "panicked"]_vars

\* the walk of the first guard has aborted at the deinit of its slot, the second
\* acquisition, of the same class, already among its children
C26_Witness ==
    /\ prog = GuardMisuse("deinit", <<AssignOther(3), Deinit(2)>>, Goto(4))
    /\ phase = "panicked"
    /\ curInv = Bbid("caller", 1)
    /\ dependant_classes = {Bbid("caller", 2)}
    /\ Top.basic_block = 3
    /\ emitted = <<>>

\* the innermost activation is about to ask for the body of a function that has none
AtMissingBody ==
    /\ phase = "flow"
    /\ stack # <<>>
    /\ ret = "none"
    /\ Top.pc = "block"
    /\ ~HasMir(Top.def_id)

\* the callee the guard was handed to has answered, and it has no body
MissingBodyAnswered ==
    /\ phase = "flow"
    /\ stack # <<>>
    /\ ret # "none"
    /\ Top.pc = "call"
    /\ ~HasMir(TerminatorOf(Bbid(Top.def_id, Top.basic_block)).func)

\* the innermost activation is at a block it has not seen, whose call keeps the guard
\* where it is and names a function without a body
AtCallOfMissingBody ==
    /\ phase = "flow"
    /\ stack # <<>>
    /\ ret = "none"
    /\ Top.pc = "block"
    /\ HasMir(Top.def_id)
    /\ [block |-> Bbid(Top.def_id, Top.basic_block), local |-> Top.current_local]
          \notin visited_blocks
    /\ LET data == BlockData(prog.bodies[Top.def_id], Top.basic_block)
           folded == FoldStatements(data.statements,
                                    [panic |-> FALSE, local |-> Top.current_local])
       IN  /\ ~folded.panic
           /\ data.terminator.kind = "Call"
           /\ data.terminator.local # folded.local
           /\ FirstUse(data.terminator.args, folded.local) = 0
           /\ data.terminator.func # NoFn
           /\ ~HasMir(data.terminator.func)

MissingBodyStep ==
    /\ AtMissingBody =>
          /\ phase' = "flow"
          /\ stack' = Pop
          /\ ret' = "Undetermined"
          /\ UNCHANGED <<visited_blocks, dependant_classes, visited_functions>>
    /\ MissingBodyAnswered =>
          /\ ret = "Undetermined"
          /\ phase' = "flow"
          /\ stack' = Pop
          /\ ret' = combine(Top.guard_state, "Undetermined")
    /\ AtCallOfMissingBody =>
          LET bbid == Bbid(Top.def_id, Top.basic_block)
              terminator == TerminatorOf(bbid)
          IN  /\ phase' = "flow"
              /\ visited_functions' = visited_functions \cup {terminator.func}
              /\ dependant_classes' = dependant_classes \cup ({bbid} \cap DOMAIN invocations)
              /\ terminator.target # NoBlock =>
                    /\ Len(stack') = Len(stack)
                    /\ stack'[Len(stack)].basic_block = terminator.target
                    /\ stack'[Len(stack)].current_local = LocalAtTerminator(
                           [block |-> bbid, local |-> Top.current_local])

\* C27: a function whose body cannot be retrieved never aborts the analysis: a callee
\* without a body that is handed the guard answers Undetermined and the caller's walk
\* stops there, its accumulated state joined with Undetermined; the sweep marks such a
\* function visited, records nothing for it and goes on recording the invocations of
\* the functions that have a body.
C27_MissingBodyAbsorbed ==
    /\ [][MissingBodyStep]_vars
    /\ [](prog \in {ExternTake, ExternInHelper} => phase # "panicked")
    /\ [](prog = ExternTake /\ PassDone =>
             /\ Children(Bbid("caller", 1)) = {}
             /\ passResult = "Ok")
    /\ [](prog = ExternInHelper /\ QueryDone /\ curInv = Bbid("caller", 1) =>
             /\ dependant_classes = {Bbid("helper", 2)}
             /\ visited_functions = {"helper", "ffi_work", "Mutex::new"})
    /\ [](prog = ExternInHelper /\ phase = "exit" => exitCode = 0)

\* the sweep of helper is over: its acquisition is recorded, ffi_work and Mutex::new,
\* which have no body, are marked visited
C27_Witness ==
    /\ prog = ExternInHelper
    /\ QueryDone
    /\ curInv = Bbid("caller", 1)
    /\ dependant_classes = {Bbid("helper", 2)}
    /\ "ffi_work" \in visited_functions

TopBbid == Bbid(Top.def_id, Top.basic_block)
TopPair == [block |-> TopBbid, local |-> Top.current_local]
TopTerminator == TerminatorOf(TopBbid)
\* the slot of the guard once the statements of the block are folded
TopSlot == LocalAtTerminator(TopPair)

\* the innermost activation is at a block it enters for the first time with this slot,
\* and folding its statements does not abort
AtFreshBlock ==
    /\ phase = "flow"
    /\ stack # <<>>
    /\ ret = "none"
    /\ Top.pc = "block"
    /\ HasMir(Top.def_id)
    /\ TopPair \notin visited_blocks
    /\ ~FoldStatements(BlockData(prog.bodies[Top.def_id], Top.basic_block).statements,
                       [panic |-> FALSE, local |-> Top.current_local]).panic

DropStep ==
    AtFreshBlock /\ TopTerminator.kind = "Drop" =>
        /\ phase' = "flow"
        /\ visited_blocks' = visited_blocks \cup {TopPair}
        /\ IF TopTerminator.local = TopSlot
           THEN /\ stack' = Pop
                /\ ret' = combine(Top.guard_state, "Dropped")
           ELSE /\ ret' = "none"
                /\ stack' = SetTop([Top EXCEPT !.basic_block = TopTerminator.target,
                                               !.current_local = TopSlot])

\* C28: at a Drop whose place is the guard's current slot the walk of the path stops
\* with the accumulated state joined with Dropped and enters no successor of the
\* Drop; at any other Drop the walk continues at the target, the slot unchanged.
C28_DropStopsThePath == [][DropStep]_vars

\* keep_if: the branch that returns the guard has answered Returned, the walk of the
\* other branch is at the drop of the guard
C28_Witness ==
    /\ prog = ReturnOrDrop
    /\ AtFreshBlock
    /\ TopTerminator.kind = "Drop"
    /\ TopTerminator.local = TopSlot
    /\ Top.guard_state = "Returned"
    /\ Top.def_id = "keep_if"

\* the call of the fresh block moves the guard's slot into argument number i - 1
\* (counted from 0), and does not write its result over the slot
MovesGuardAt(i) ==
    /\ AtFreshBlock
    /\ TopTerminator.kind = "Call"
    /\ TopTerminator.local # TopSlot
    /\ i \in 1..Len(TopTerminator.args)
    /\ TopTerminator.args[i].op = "Move" /\ TopTerminator.args[i].local = TopSlot
    /\ \A j \in 1..(i - 1) :
          ~(TopTerminator.args[j].op \in {"Move", "Copy"} /\ TopTerminator.args[j].local = TopSlot)

\* the callee the guard was moved into has answered
CalleeHasAnswered == phase = "flow" /\ stack # <<>> /\ ret # "none" /\ Top.pc = "call"

GuardCallStep ==
    /\ \A i \in 1..3 :
          MovesGuardAt(i) =>
              /\ phase' = "flow"
              /\ IF TopTerminator.func = NoFn
                 THEN /\ stack' = Pop
                      /\ ret' = combine(Top.guard_state, "Dropped")
                 ELSE /\ ret' = "none"
                      /\ Len(stack') = Len(stack) + 1
                      /\ stack'[Len(stack)].pc = "call"
                      /\ stack'[Len(stack)].basic_block = Top.basic_block
                      /\ stack'[Len(stack')].def_id = TopTerminator.func
                      /\ stack'[Len(stack')].basic_block = START_BLOCK
                      /\ stack'[Len(stack')].current_local = i
                      /\ stack'[Len(stack')].examine_returns = FALSE
                      /\ stack'[Len(stack')].guard_state = "Undetermined"
                      /\ stack'[Len(stack')].pc = "block"
    /\ CalleeHasAnswered =>
          /\ phase' = "flow"
          /\ IF ret = "Returned" /\ TopTerminator.target # NoBlock
             THEN /\ ret' = "none"
                  /\ stack' = SetTop([Top EXCEPT !.pc = "block",
                                                 !.current_local = TopTerminator.local,
                                                 !.basic_block = TopTerminator.target])
             ELSE /\ stack' = Pop
                  /\ ret' = combine(Top.guard_state,
                                    IF ret = "Returned" THEN "Undetermined" ELSE ret)

\* C29: at a call that moves the guard's current slot as argument number i (from 0)
\* an unresolvable callee stops the walk with Dropped; a resolvable callee F is
\* analysed from its entry block with slot i + 1 in callee mode, and on its answer
\* Returned the guard is in the destination and the walk continues at the call's
\* target, on Dropped the walk stops with Dropped and on Undetermined with
\* Undetermined, each joined with the state accumulated so far.
C29_GuardMovedIntoCall == [][GuardCallStep]_vars

\* seed6: return_guard has answered Returned, the caller is about to continue at the
\* target of the call with the guard in the destination
C29_Witness ==
    /\ prog = Seed6
    /\ CalleeHasAnswered
    /\ ret = "Returned"
    /\ TopTerminator.func = "return_guard"
    /\ TopTerminator.local = 3
    /\ TopTerminator.target = 3

\* the statement is an assignment whose Use operand, or one of whose Aggregate
\* operands, moves slot l
MovesSlot(statement, l) ==
    /\ statement.kind = "Assign"
    /\ statement.rvalue \in {"Use", "Aggregate"}
    /\ \E i \in 1..Len(statement.operands) :
          statement.operands[i].op = "Move" /\ statement.operands[i].local = l

\* C30: the slot-transfer function gives the local of the assignment's target exactly
\* when the statement is an assignment whose Use operand, or one of whose Aggregate
\* operands, moves the current slot; every other statement that does not abort leaves
\* the slot where it is.
C30_SlotTransfer ==
    Len(outputs) = 1 =>
        /\ outputs[1].panic <=> StatementMisuses(inputs.statement, inputs.current_local)
        /\ ~outputs[1].panic =>
              outputs[1].local = IF MovesSlot(inputs.statement, inputs.current_local)
                                 THEN inputs.statement.local
                                 ELSE inputs.current_local

\* the guard in _2 moved into the aggregate assigned to _3
C30_Witness ==
    /\ inputs = [statement |-> AssignAggregate(3, <<Const, Move(2)>>), current_local |-> 2]
    /\ outputs = <<[panic |-> FALSE, local |-> 3]>>

\* the innermost activation is at a SwitchInt whose statements it has folded
AtSwitch == phase = "flow" /\ stack # <<>> /\ Top.pc = "switch"

\* the non-otherwise targets of the SwitchInt of frame f that have been handed out
Dispatched(f) ==
    LET targets == BlockData(prog.bodies[f.def_id], f.basic_block).terminator.targets
    IN  {targets[i] : i \in 1..(Len(targets) - Len(f.pend))}

\* every activation that waits at a SwitchInt holds the slot the guard has at the
\* SwitchInt, and each target handed out so far is walked, or about to be walked by
\* the activation above, with that slot
BranchesFromSwitchSlot ==
    phase = "flow" =>
        \A k \in 1..Len(stack) :
            stack[k].pc = "switch" =>
                /\ \E pair \in visited_blocks :
                      /\ pair.block = Bbid(stack[k].def_id, stack[k].basic_block)
                      /\ LocalAtTerminator(pair) = stack[k].current_local
                /\ \A b \in Dispatched(stack[k]) :
                      \/ Walked(Bbid(stack[k].def_id, b), stack[k].current_local)
                      \/ /\ k < Len(stack)
                         /\ stack[k + 1] = Frame(Bbid(stack[k].def_id, b),
                                                 stack[k].current_local,
                                                 stack[k].examine_returns)

\* the steps of an activation at a SwitchInt: a branch is a new activation that starts
\* with the slot of the SwitchInt, the state a branch returns is combined, the
\* otherwise target is entered by the same activation with the same slot; none of
\* them touches visited_blocks or the children, which the branches fill in common
SwitchStep ==
    /\ (AtFreshBlock /\ TopTerminator.kind = "SwitchInt" /\ phase' = "flow") =>
          stack' = SetTop([Top EXCEPT !.pc = "switch", !.current_local = TopSlot,
                                      !.pend = TopTerminator.targets])
    /\ (AtSwitch /\ stack' # stack) =>
          /\ visited_blocks' = visited_blocks
          /\ dependant_classes' = dependant_classes
          /\ visited_functions' = visited_functions
          /\ IF ret # "none"
             THEN stack' = SetTop([Top EXCEPT !.guard_state = combine(@, ret)])
             ELSE IF Top.pend # <<>>
             THEN stack' = Append(SetTop([Top EXCEPT !.pend = Tail(@)]),
                                  Frame(Bbid(Top.def_id, Head(Top.pend)),
                                        Top.current_local, Top.examine_returns))
             ELSE stack' = SetTop([Top EXCEPT !.pc = "block",
                                              !.basic_block = TopTerminator.target])
    \* an activation below the innermost one is not changed by what happens above it
    /\ (InQuery /\ curInv' = curInv) =>
          /\ \A k \in 1..(Len(stack) - 1) : k <= Len(stack') /\ stack'[k] = stack[k]
          /\ dependant_classes \subseteq dependant_classes'
          /\ visited_blocks \subseteq visited_blocks'

\* C31: at a SwitchInt every non-otherwise target is analysed starting with the slot
\* the guard has at the SwitchInt, and the otherwise target is then walked with that
\* same slot: what a branch does to the slot changes neither the slot of the other
\* branches nor that of the otherwise path, while visited_blocks and the collected
\* children are shared between the branches.
C31_SwitchBranchesShareSlot ==
    /\ []BranchesFromSwitchSlot
    /\ [][SwitchStep]_vars

\* keep_if has moved the guard from _2 to _0 on its branch and returned it; the
\* otherwise target is entered with the guard in _2 and the branch's block on record
C31_Witness ==
    /\ prog = ReturnOrDrop
    /\ AtFreshBlock
    /\ Top.def_id = "keep_if"
    /\ Top.basic_block = 2
    /\ Top.current_local = 2
    /\ Top.guard_state = "Returned"
    /\ Walked(Bbid("keep_if", 1), 2)
    /\ Walked(Bbid("keep_if", 3), 0)

\* the innermost activation is at the top of its loop
AtLoopTop == phase = "flow" /\ stack # <<>> /\ ret = "none" /\ Top.pc = "block"

\* an activation that is past the top of its loop, at the terminator of its block, has
\* entered the pair it came with in visited_blocks
InsertedBeforeProcessing ==
    phase = "flow" =>
        \A k \in 1..Len(stack) :
            stack[k].pc # "block" =>
                \E pair \in visited_blocks :
                    /\ pair.block = Bbid(stack[k].def_id, stack[k].basic_block)
                    /\ LocalAtTerminator(pair) = stack[k].current_local

\* one turn of the loop: at a pair on record the activation ends with Undetermined,
\* whatever it has accumulated, and nothing is marked, folded or matched; at any other
\* pair the pair is put on record in the same turn; and within a query the record is
\* changed by no other step and loses no pair
VisitedStep ==
    /\ (AtLoopTop /\ HasMir(Top.def_id) /\ TopPair \in visited_blocks) =>
          /\ stack' = Pop
          /\ ret' = "Undetermined"
          /\ phase' = "flow"
          /\ UNCHANGED <<visited_blocks, dependant_classes, visited_functions>>
    /\ (AtLoopTop /\ HasMir(Top.def_id) /\ TopPair \notin visited_blocks) =>
          /\ visited_blocks' = visited_blocks \cup {TopPair}
          /\ stack' # Pop \/ ret' # "none"
    /\ (InQuery /\ curInv' = curInv /\ visited_blocks' # visited_blocks) =>
          /\ AtLoopTop
          /\ visited_blocks' = visited_blocks \cup {TopPair}
          /\ TopPair \notin visited_blocks
    /\ (InQuery /\ curInv' = curInv /\ ~AtLoopTop) =>
          dependant_classes' = dependant_classes

\* C32: when the walk reaches a (bbid, current_local) pair already in visited_blocks
\* that activation returns Undetermined; otherwise it inserts the pair before it
\* processes the block, so the marking, the statements and the terminator of a block
\* are processed at most once per (bbid, local) in a top-level query.
C32_VisitedCutOff ==
    /\ []InsertedBeforeProcessing
    /\ [][VisitedStep]_vars

\* drop_guard_if has dropped the guard on its branch; its otherwise path has come to
\* the block of the drop a second time and has answered Undetermined
C32_Witness ==
    /\ prog = DropIf
    /\ phase = "flow"
    /\ Len(stack) = 1
    /\ Top.pc = "call"
    /\ ret = "Undetermined"
    /\ Walked(Bbid("drop_guard_if", 2), 1)
    /\ Walked(Bbid("drop_guard_if", 1), 1)

\* the functions collect_invocations has scanned so far: the items before scanIdx
\* that are functions, the resolution shim left out
CollectedFns ==
    {prog.items[i].def_id : i \in {j \in 1..(scanIdx - 1) :
        prog.items[j].kind = "Fn" /\ prog.items[j].def_id # LOCK_FILLER_FN_NAME}}

\* the blocks of f some path from its entry block reaches
RECURSIVE CfgClosure(_, _)
CfgClosure(body, S) ==
    LET N == S \cup UNION {Range(successors(BlockData(body, b).terminator)) : b \in S}
    IN  IF N = S THEN S ELSE CfgClosure(body, N)
ReachableBlocks(f) == CfgClosure(prog.bodies[f], {START_BLOCK})

\* the terminator of bbid calls the configured lock method with an argument whose
\* type, references peeled, is the configured lock type
CallsLockOnLockType(bbid) ==
    LET terminator == TerminatorOf(bbid)
    IN  /\ terminator.kind = "Call"
        /\ terminator.func = pass_target.lock_method
        /\ \E i \in 1..Len(terminator.args) :
              peel_refs(terminator.args[i].ty).adt = pass_target.lock

\* the reachable blocks of the functions scanned so far
CollectedBlocks ==
    UNION {{Bbid(f, b) : b \in ReachableBlocks(f)} : f \in CollectedFns}

\* the reachable calls, in the scanned functions, of the function F that are no lock
\* invocation and have a success continuation
PlainCallsOf(F) ==
    {s \in CollectedBlocks :
        /\ TerminatorOf(s).kind = "Call"
        /\ TerminatorOf(s).func = F
        /\ ~CallsLockOnLockType(s)
        /\ TerminatorOf(s).target # NoBlock}

\* the functions some reachable terminator of a scanned function calls by name
CalledFns == {TerminatorOf(s).func : s \in CollectedBlocks} \ {NoFn}

\* C33: after collection the invocation map has exactly one entry for every reachable
\* block whose terminator calls the configured lock method with an argument of the
\* configured lock type, and the return-target map holds, under callee F, exactly the
\* {success-continuation block, destination slot} pairs of the reachable non-lock
\* calls to resolvable F that have a success continuation; the blocks of the
\* resolution shim and unreachable blocks contribute to neither map.
C33_CollectionExact ==
    InPass =>
        /\ phase # "collect" => scanIdx = Len(prog.items) + 1
        /\ DOMAIN invocations =
              {s \in CollectedBlocks : CallsLockOnLockType(s)}
        /\ \A s \in DOMAIN invocations :
              /\ invocations[s].class = ty_to_class[LockedTy(s)]
              /\ invocations[s].span = TerminatorOf(s).span
              /\ s.def_id # LOCK_FILLER_FN_NAME
              /\ s.basic_block \in ReachableBlocks(s.def_id)
        /\ \A F \in DOMAIN return_map :
              /\ return_map[F] # {}
              /\ return_map[F] =
                    {[return_bbid |-> with_basic_block(s, TerminatorOf(s).target),
                      return_local |-> TerminatorOf(s).local] : s \in PlainCallsOf(F)}
              /\ \A return_location \in return_map[F] :
                    return_location.return_bbid.def_id # LOCK_FILLER_FN_NAME
        /\ DOMAIN return_map = {F \in CalledFns : PlainCallsOf(F) # {}}

\* dead_blocks is collected: the acquisition in bb1 and the continuations of the calls
\* in bb0 and bb2 are on record, the acquisition in bb5 and the call in bb6 are not
C33_Witness ==
    /\ prog = DeadBlocks
    /\ phase = "flow"
    /\ DOMAIN invocations = {Bbid("dead", 1)}
    /\ return_map = ("helper" :> {[return_bbid |-> Bbid("dead", 3), return_local |-> 3]})
                     @@ ("Mutex::new" :> {[return_bbid |-> Bbid("dead", 1),
                                           return_local |-> 1]})

\* the invocations recorded with lock class C
InvocationsOf(C) == {I \in DOMAIN invocations : Class(I) = C}

\* C34: dep_map has a key for every lock class that has at least one recorded
\* invocation, also when none of its invocations has children, and dep_map[C] is the
\* union, over all invocations of class C, of the classes of their children; no other
\* class and no other edge appears.
C34_DepMapIsUnionOfChildren ==
    phase \in {"cycles", "returned"} =>
        /\ DOMAIN dependant_map = {Class(I) : I \in DOMAIN invocations}
        /\ \A C \in DOMAIN dependant_map :
              dependant_map[C] = UNION {{Class(J) : J \in Children(I)} : I \in InvocationsOf(C)}

\* a map with a class nothing is acquired under and a class whose dependancies come
\* from the children of two of its invocations
C34_Witness ==
    /\ phase = "cycles"
    /\ \E C \in DOMAIN dependant_map : dependant_map[C] = {}
    /\ \E C \in DOMAIN dependant_map :
          \E I, J \in InvocationsOf(C) :
              /\ Children(I) # {}
              /\ Children(J) # {}
              /\ {Class(K) : K \in Children(I)} # dependant_map[C]
              /\ {Class(K) : K \in Children(J)} # dependant_map[C]

\* the step of an activation at a Return it enters for the first time
ReturnStep ==
    AtFreshBlock /\ TopTerminator.kind = "Return" =>
        IF TopSlot # RETURN_PLACE
        THEN /\ phase' = "panicked"
             /\ exitCode' = 101
             /\ ret' = "none"
        ELSE ~Top.examine_returns =>
                /\ phase' = "flow"
                /\ stack' = Pop
                /\ ret' = "Returned"
                /\ Rank(ret') >= Rank(Top.guard_state)

\* C35: at a Return in callee mode the result is Returned, joined with the
\* accumulated state, when the guard is in slot 0; in callee mode and in forward mode
\* alike a Return reached while the guard is in any other slot aborts the analysis
\* and produces no GuardState.
C35_ReturnNeedsReturnPlace == [][ReturnStep]_vars

\* drop_or_return: the activation for the callee had Dropped from its branch and has
\* answered Returned at the Return it came to with the guard in _0
C35_Witness ==
    /\ prog.name = "drop_or_return"
    /\ phase = "flow"
    /\ Len(stack) = 1
    /\ Top.pc = "call"
    /\ ret = "Returned"
    /\ Walked(Bbid("drop_or_return", 1), 1)
    /\ Walked(Bbid("drop_or_return", 3), 0)

\* the innermost activation is the one a call has just started for the callee the
\* guard is moved into: it stands at the entry block of the callee with the guard in
\* the slot of the argument, below it the activation of the caller waits at the call
AtCalleeEntry ==
    /\ AtLoopTop
    /\ Len(stack) >= 2
    /\ stack[Len(stack) - 1].pc = "call"
    /\ Top = Frame(fn_start(Top.def_id), Top.current_local, FALSE)
    /\ HasMir(Top.def_id)

\* a hand-over to a callee whose (entry block, argument slot) is on record is answered
\* Undetermined at once, and a caller that is answered Undetermined ends its walk with
\* what it has accumulated, the record and the children left as they are
MemoStep ==
    /\ (AtCalleeEntry /\ TopPair \in visited_blocks) =>
          /\ stack' = Pop
          /\ ret' = "Undetermined"
          /\ UNCHANGED <<visited_blocks, dependant_classes, visited_functions>>
    /\ (phase = "flow" /\ stack # <<>> /\ Top.pc = "call" /\ ret = "Undetermined") =>
          /\ stack' = Pop
          /\ ret' = Top.guard_state
          /\ UNCHANGED <<visited_blocks, dependant_classes, visited_functions>>

\* return_twice: the first hand-over to return_guard is answered Returned and the walk
\* goes on at the second call with the guard in _3; the second hand-over is answered
\* Undetermined, the acquisition after it is not walked and is no child
SecondHandOver ==
    prog = ReturnTwice =>
        /\ (AtCalleeEntry /\ TopPair \in visited_blocks) =>
              /\ Walked(Bbid("caller", 3), 3)
              /\ stack[Len(stack) - 1].basic_block = 3
        /\ (QueryDone /\ curInv = Bbid("caller", 1)) =>
              /\ ret = "Undetermined"
              /\ Walked(Bbid("caller", 3), 3)
              /\ \A l \in 0..9 : ~Walked(Bbid("caller", 4), l)
              /\ Bbid("caller", 4) \notin dependant_classes
        /\ PassDone =>
              /\ Children(Bbid("caller", 1)) = {}
              /\ passResult = "Ok"

FlowDone == phase = "flow" /\ curInv = NoBbid /\ pendingInv = {} /\ stack = <<>>

\* every key the dependency analysis looks up is there: the children index the
\* invocation map, and the class of a child and every class reachable from it index
\* the dependant map, whichever way the detector iterates
KeysPresent ==
    /\ FlowDone =>
          /\ \A I \in DOMAIN invocations : Children(I) \subseteq DOMAIN invocations
          /\ ~get_dependant_map.panic
    /\ phase = "cycles" =>
          \A I \in DOMAIN invocations : \A J \in Children(I) :
              /\ J \in DOMAIN invocations
              /\ Class(J) \in DOMAIN dependant_map
              /\ ReachableFrom(dependant_map, Class(J)) \subseteq DOMAIN dependant_map
              /\ \A o \in dependancies_contain(Class(I), Class(J), dependant_map, {}) :
                    /\ o.result # "panic"
                    /\ o.visited \subseteq DOMAIN dependant_map

\* neither get_dependant_map nor the loop over the children aborts
NoLookupPanic ==
    (FlowDone \/ phase = "cycles") => phase' # "panicked"

\* C37: the dependency analysis never looks up a missing key: every child BBID used
\* to index the invocation map is a key of it, and every class dependancies_contain
\* visits (the class of the child and every class reachable from it in dep_map) is a
\* key of dep_map, whatever children sets the guard-flow phase has produced.
C37_NoMissingKey ==
    /\ []KeysPresent
    /\ [][NoLookupPanic]_vars

\* the detector has been put a child under whose class nothing is acquired, and has
\* looked that class up and answered
C37_Witness ==
    /\ phase = "cycles"
    /\ \E I \in DOMAIN invocations : \E J \in Children(I) :
          /\ Examined(I, J)
          /\ dependant_map[Class(J)] = {}
          /\ <<I, J>> \notin reported
    /\ \E I \in DOMAIN invocations : \E J \in Children(I) :
          /\ Examined(I, J)
          /\ <<I, J>> \in reported

\* the cycles of k distinct classes of the dependant map dm
CyclesOfLength(dm, k) ==
    {s \in [1..k -> DOMAIN dm] :
        /\ \A i, j \in 1..k : i # j => s[i] # s[j]
        /\ \A i \in 1..k : s[(i % k) + 1] \in dm[s[i]]}

\* dm has a cycle of three or more classes
HasLongCycle(dm) ==
    \E k \in 3..Cardinality(DOMAIN dm) : CyclesOfLength(dm, k) # {}

\* C38: on the same invocation map and children sets, every pair (I, J) the earlier
\* direct-back-edge criterion reports (class(I) is a member of dep_map[class(J)]) is
\* reported by the current reachability criterion too, and the two criteria report the
\* same pairs whenever dep_map has no cycle of length three or more.
C38_CriteriaAgree ==
    Len(outputs) = 2 =>
        /\ outputs[2] = "true" => outputs[1] = "true"
        /\ ~HasLongCycle(inputs.dependant_map) => outputs[1] = outputs[2]
        /\ "panic" \notin {outputs[1], outputs[2]}

\* class 1 acquired under class 0, classes 0 and 2 under class 1, class 1 under
\* class 2: the pair (0, 1) is reported by both criteria, the map has no cycle of
\* three classes
C38_Witness ==
    /\ phase = "detect"
    /\ inputs = [dependant_map |-> (0 :> {1}) @@ (1 :> {0, 2}) @@ (2 :> {1}),
                 invocation_class |-> 0, child_class |-> 1]
    /\ outputs = <<"true", "true">>

====
